---- MODULE Spec2Model ----
(***************************************************************************)
(* dustsort (rs/src): an in-place stable block merge sort.                 *)
(*                                                                         *)
(* The sequence being sorted is `mem.a`; raw pointers of the source are    *)
(* 0-based positions into it (position p is mem.a[p + 1]).  An element is  *)
(* an integer key * IdBase + id: `less` looks at the key only, the id is   *)
(* the element's original index, so that equal elements stay distinct.     *)
(***************************************************************************)
EXTENDS Integers, Sequences, FiniteSets, TLC

VARIABLES
    mem,      \* the sequence and what was observed of the accesses to it
    buf,      \* the internal Buffer {start, len, unsorted}
    pc,       \* position in the running operation
    loc,      \* the locals of the running operation
    input,    \* the sequence as it was handed in
    ret       \* the value the last operation returned

vars == <<mem, buf, pc, loc, input, ret>>

\* Call(f, a): the result of the crate's function f on the arguments a. The
\* functions call one another through it, which makes them one recursive
\* definition.
RECURSIVE Call(_, _)

----------------------------------------------------------------------------
(* Elements and the comparator *)

IdBase == 8192

Key(x) == x \div IdBase
Id(x) == x % IdBase

\* The comparator all entry points reduce to (lib.rs): a strict weak order.
less(x, y) == Key(x) < Key(y)

Min(x, y) == IF x < y THEN x ELSE y
Max(x, y) == IF x < y THEN y ELSE x

Range(f) == {f[i] : i \in 1..Len(f)}

----------------------------------------------------------------------------
(* Loops.  While(Cond, Step, v) runs `Step` from v while `Cond` holds.  The *)
(* loop state v is a record with a field m, the memory; a panic ends every *)
(* loop at once.  Steps are grouped in doubling chunks to keep the         *)
(* evaluation depth logarithmic in the number of iterations.               *)

While(Cond(_), Step(_), v0) ==
    LET RECURSIVE It(_, _, _)
        \* It(v, d, all): at most 2^d steps from v; with `all`, every step.
        It(v, d, all) ==
            IF v.m.panic \/ ~Cond(v) THEN v
            ELSE IF all THEN It(It(v, d, FALSE), d + 1, TRUE)
            ELSE IF d = 0 THEN Step(v)
            ELSE It(It(v, d - 1, FALSE), d - 1, FALSE)
    IN It(v0, 0, TRUE)

\* The one element of a singleton.  The({e(x) : x \in {d}}) is e with x bound
\* to the value of d: the way an intermediate result is named here.
The(S) == CHOOSE x \in S : TRUE

----------------------------------------------------------------------------
(* Memory.  m.a: the sequence; m.cmp: comparator calls so far; m.oob: an   *)
(* access fell outside [0, n); m.self: the comparator was handed the same  *)
(* position twice; m.ub: a precondition of a raw memory operation was      *)
(* broken; m.hbad: at some comparator call, the sequence with the          *)
(* outstanding Hole dropped was not a permutation of the input (what an    *)
(* abort of that call would leave behind); m.panic: begin_merge panicked.  *)
(* m.diff is how the sequence differs, as a multiset, from the input       *)
(* (m.set, its elements being distinct): diff.more[x] is the number of     *)
(* copies of x beyond the first, diff.gone the elements with no copy left. *)

NoDiff == [more |-> <<>>, gone |-> {}]

Same(d) == DOMAIN d.more = {} /\ d.gone = {}

\* The difference after one copy of o was overwritten by a copy of x.
Put(d, o, x) ==
    IF o = x THEN d
    ELSE The({[more |-> IF x \in d1.gone THEN d1.more
                        ELSE IF x \in DOMAIN d1.more THEN [d1.more EXCEPT ![x] = @ + 1]
                        ELSE (x :> 1) @@ d1.more,
               gone |-> d1.gone \ {x}] :
              d1 \in {IF o \notin DOMAIN d.more THEN [d EXCEPT !.gone = @ \cup {o}]
                      ELSE IF d.more[o] > 1 THEN [d EXCEPT !.more[o] = @ - 1]
                      ELSE [d EXCEPT !.more = [y \in DOMAIN @ \ {o} |-> @[y]]]}})

NewMem(a) ==
    [a |-> a, set |-> Range(a), diff |-> NoDiff, cmp |-> 0, oob |-> FALSE, self |-> FALSE,
     ub |-> FALSE, hbad |-> FALSE, panic |-> FALSE]

Size(m) == Len(m.a)
InRange(m, p) == p >= 0 /\ p < Size(m)
RangeOK(m, p, cnt) == cnt = 0 \/ (p >= 0 /\ p + cnt <= Size(m))

\* ptr.read(): a read outside the sequence yields a value that is no element.
Rd(m, p) == IF InRange(m, p) THEN m.a[p + 1] ELSE -1

\* The bookkeeping of a read of position p.
Touch(m, p) == IF m.panic \/ InRange(m, p) THEN m ELSE [m EXCEPT !.oob = TRUE]

\* ptr.write(v)
Wr(m, p, v) ==
    IF m.panic THEN m
    ELSE IF InRange(m, p) THEN [m EXCEPT !.a[p + 1] = v, !.diff = Put(@, m.a[p + 1], v)]
    ELSE [m EXCEPT !.oob = TRUE]

\* dst.write(src.read())
Move(m, dst, src) == Wr(Touch(m, src), dst, Rd(m, src))

Slice(a, p, cnt) == SubSeq(a, p + 1, p + cnt)

\* The difference after a[src..src + cnt) was copied to a[dst..dst + cnt): the
\* values at the k positions only the destination covers made way for those
\* at the k positions only the source covers.
RECURSIVE PutCopy(_, _, _, _, _, _)
PutCopy(d, a, src, dst, cnt, k) ==
    IF k = 0 THEN d
    ELSE PutCopy(IF dst > src THEN Put(d, a[dst + cnt - k + 1], a[src + k])
                 ELSE Put(d, a[dst + k], a[src + cnt - k + 1]),
                 a, src, dst, cnt, k - 1)

\* ptr::copy(src, dst, cnt): memmove
ptr_copy(m, src, dst, cnt) ==
    IF m.panic \/ cnt <= 0 THEN m
    ELSE IF ~(RangeOK(m, src, cnt) /\ RangeOK(m, dst, cnt)) THEN [m EXCEPT !.oob = TRUE]
    ELSE [m EXCEPT !.a = Slice(m.a, 0, dst) \o Slice(m.a, src, cnt)
                          \o Slice(m.a, dst + cnt, Size(m) - dst - cnt),
                   !.diff = PutCopy(@, m.a, src, dst, cnt,
                                    Min(cnt, IF dst > src THEN dst - src ELSE src - dst))]

\* core::hint::assert_unchecked(cond): undefined behaviour when cond is false.
assert_unchecked(m, cond) == IF cond \/ m.panic THEN m ELSE [m EXCEPT !.ub = TRUE]

\* ptr::swap_nonoverlapping(x, y, cnt)
swap_nonoverlapping(m, x, y, cnt) ==
    IF m.panic \/ cnt <= 0 THEN m
    ELSE IF ~(RangeOK(m, x, cnt) /\ RangeOK(m, y, cnt)) THEN [m EXCEPT !.oob = TRUE]
    ELSE IF ~(x + cnt <= y \/ y + cnt <= x) THEN [m EXCEPT !.ub = TRUE]
    ELSE LET lo == Min(x, y)
             hi == Max(x, y)
         IN [m EXCEPT !.a = Slice(m.a, 0, lo) \o Slice(m.a, hi, cnt)
                            \o Slice(m.a, lo + cnt, hi - lo - cnt) \o Slice(m.a, lo, cnt)
                            \o Slice(m.a, hi + cnt, Size(m) - hi - cnt)]

\* ptr::swap(x, y)
ptr_swap(m, x, y) ==
    IF m.panic THEN m
    ELSE IF ~(InRange(m, x) /\ InRange(m, y)) THEN [m EXCEPT !.oob = TRUE]
    ELSE [m EXCEPT !.a = [@ EXCEPT ![x + 1] = m.a[y + 1], ![y + 1] = m.a[x + 1]]]

----------------------------------------------------------------------------
(* util.rs: Hole *)

\* A Hole: `pos` is the vacated position, `val` the stashed value that drop
\* writes back.  pos = -1: the hole still points at its own stack slot.
Hole_new(pos, val) == [pos |-> pos, val |-> val]
NoHole == Hole_new(-1, -1)

\* Drop for Hole: self.pos.write(self.src.read())
Hole_drop(m, hole) == IF hole.pos = -1 THEN m ELSE Wr(m, hole.pos, hole.val)

\* A Hole::cycle that leaves `pos` where it was.
Hole_cycle_stay(m, hole, src, dst) ==
    [m |-> Move(IF hole.pos = -1 THEN m ELSE Move(m, hole.pos, dst), dst, src),
     hole |-> Hole_new(hole.pos, IF hole.pos = -1 THEN Rd(m, dst) ELSE hole.val)]

\* Hole::cycle(src, dst): returns the memory and the moved hole.
Hole_cycle(m, hole, src, dst) ==
    The({[m |-> Wr(Touch(m2, src), dst, Rd(m2, src)),
          hole |-> Hole_new(src, IF hole.pos = -1 THEN Rd(m, dst) ELSE hole.val)] :
         m2 \in {IF hole.pos = -1 THEN Touch(m, dst)
                 ELSE Wr(Touch(m, dst), hole.pos, Rd(m, dst))}})

----------------------------------------------------------------------------
(* Calls of the comparator *)

IsPerm(a, set) == Len(a) = Cardinality(set) /\ Range(a) = set

\* Whether the sequence of m with the outstanding hole dropped is a permutation
\* of the input.
HoleIsPerm(m, hole) ==
    IF hole.pos >= 0 /\ hole.pos < Size(m)
    THEN Same(Put(m.diff, m.a[hole.pos + 1], hole.val))
    ELSE Same(m.diff)

\* The bookkeeping of one call less(&*px, &*py) while `hole` is outstanding.
Note(m, px, py, hole) ==
    IF m.panic THEN m
    ELSE [m EXCEPT !.cmp = @ + 1,
                   !.oob = @ \/ ~InRange(m, px) \/ ~InRange(m, py),
                   !.self = @ \/ px = py,
                   !.hbad = @ \/ ~HoleIsPerm(m, hole)]

\* The bookkeeping of one call less(&tmp, &*py) or less(&*py, &tmp), tmp being
\* the value the hole stashed.
NoteStash(m, py, hole) ==
    IF m.panic THEN m
    ELSE [m EXCEPT !.cmp = @ + 1,
                   !.oob = @ \/ ~InRange(m, py),
                   !.self = @ \/ py = hole.pos,
                   !.hbad = @ \/ ~HoleIsPerm(m, hole)]

\* less(&*px, &*py), or with inv the closure |x, y| !less(y, x) of blocks.rs.
Lt(m, px, py, inv) ==
    IF inv THEN ~less(Rd(m, py), Rd(m, px)) ELSE less(Rd(m, px), Rd(m, py))

\* The positions the underlying comparator is handed, in its order.
NoteLt(m, px, py, inv, hole) ==
    IF inv THEN Note(m, py, px, hole) ELSE Note(m, px, py, hole)

----------------------------------------------------------------------------
(* util.rs *)

\* advance(s, n, cnt) is written out where it is used: (s + cnt, n - cnt).

conditional(a, b, is_b) == IF is_b THEN b ELSE a

\* A cycle_swap that copies region b over region a and leaves b as it was.
cycle_swap_copy(m, a, b, cnt) == ptr_copy(m, b, a, cnt)

cycle_swap(m, a, b, cnt) ==
    Wr(While(LAMBDA v : v.i < cnt,
             LAMBDA v : [m |-> Move(Move(v.m, b + v.i - 1, a + v.i), a + v.i, b + v.i),
                         i |-> v.i + 1],
             [m |-> Move(assert_unchecked(m, cnt > 0 /\ (a + cnt <= b \/ b + cnt <= a)), a, b),
              i |-> 1]).m,
       b + cnt - 1, Rd(m, a))

insert_left(m, s, cnt) ==
    Wr(ptr_copy(Touch(m, s), s - cnt, s + 1 - cnt, cnt), s - cnt, Rd(m, s))

\* An insert_right that never writes the element it took out back.
insert_right_lost(m, s, cnt) == ptr_copy(Touch(m, s), s + 1, s, cnt)

insert_right(m, s, cnt) ==
    Wr(ptr_copy(Touch(m, s), s + 1, s, cnt), s + cnt, Rd(m, s))

reverse(m, l0, r0) ==
    While(LAMBDA v : v.l + 1 < v.r,
          LAMBDA v : [m |-> ptr_swap(v.m, v.l, v.r - 1), l |-> v.l + 1, r |-> v.r - 1],
          [m |-> m, l |-> l0, r |-> r0]).m

rotate(m, s0, n10, n20) ==
    The({IF lp.n1 = 1 THEN Call("insert_right", <<lp.m, lp.s, lp.n2>>)
         ELSE IF lp.n2 = 1 THEN Call("insert_left", <<lp.m, lp.s + lp.n1, lp.n1>>)
         ELSE lp.m :
         lp \in {While(LAMBDA v : v.n1 > 1 /\ v.n2 > 1,
                       LAMBDA v :
                           IF v.n1 > v.n2
                           THEN [v EXCEPT !.m = swap_nonoverlapping(v.m, v.s + v.n1 - v.n2,
                                                                     v.s + v.n1, v.n2),
                                          !.n1 = v.n1 - v.n2]
                           ELSE [v EXCEPT !.m = swap_nonoverlapping(v.m, v.s, v.s + v.n1, v.n1),
                                          !.n2 = v.n2 - v.n1,
                                          !.s = v.s + v.n1],
                       [m |-> m, s |-> s0, n1 |-> n10, n2 |-> n20])}})

\* lower_bound(n, f): the index found and, in order, the indices f was asked.
lower_bound(n0, f(_)) ==
    LET RECURSIVE go(_, _, _)
        go(n, i, asked) ==
            IF n > 0
            THEN LET h == n \div 2
                 IN go(h, i + conditional(0, n - h, f(i + h)), Append(asked, i + h))
            ELSE [i |-> i, asked |-> asked]
    IN go(n0, 0, <<>>)

\* The bookkeeping of the calls a search made: one per pair of positions.
RECURSIVE NotePairs(_, _, _, _, _)
NotePairs(m, pairs, k, inv, hole) ==
    IF k > Len(pairs) THEN m
    ELSE NotePairs(NoteLt(m, pairs[k][1], pairs[k][2], inv, hole), pairs, k + 1, inv, hole)

\* A search_left that goes on past the elements equal to *val.
search_left_past(m, s, n, val, inv, hole) ==
    The({[m |-> NotePairs(m, [k \in 1..Len(lb.asked) |-> <<s + lb.asked[k], val>>], 1, inv,
                          hole),
          r |-> lb.i] :
         lb \in {lower_bound(n, LAMBDA x : ~Lt(m, val, s + x, inv))}})

\* search_left(s, n, val, less): how many of s..s + n are less than *val.
search_left(m, s, n, val, inv, hole) ==
    The({[m |-> NotePairs(m, [k \in 1..Len(lb.asked) |-> <<s + lb.asked[k], val>>], 1, inv,
                          hole),
          r |-> lb.i] :
         lb \in {lower_bound(n, LAMBDA x : Lt(m, s + x, val, inv))}})

\* search_right(s, n, val, less): how many of s..s + n *val is not less than.
search_right(m, s, n, val, inv, hole) ==
    The({[m |-> NotePairs(m, [k \in 1..Len(lb.asked) |-> <<val, s + lb.asked[k]>>], 1, inv,
                          hole),
          r |-> lb.i] :
         lb \in {lower_bound(n, LAMBDA x : ~Lt(m, val, s + x, inv))}})

block_swap_length(m, s1, n1, s2, n2, inv) ==
    The({[m |-> NotePairs(m, [k \in 1..Len(lb.asked) |->
                                <<s2 + lb.asked[k], s1 + n1 - lb.asked[k] - 1>>], 1, inv,
                          NoHole),
          r |-> lb.i] :
         lb \in {lower_bound(Min(n1, n2), LAMBDA i : Lt(m, s2 + i, s1 + n1 - i - 1, inv))}})

----------------------------------------------------------------------------
(* dust.rs: insert_sort *)

\* A body of the loop without the odd step: the hole is dropped where the
\* two-at-a-time shifting left it.
insert_sort_one_even(m, s, i) ==
    The({Hole_drop(sh.m, Hole_new(sh.pos, Rd(m, s + i))) :
         sh \in {While(LAMBDA v : v.go,
                       LAMBDA v :
                           IF v.pos > s + 1
                           THEN [m |-> IF less(Rd(m, s + i), Rd(v.m, v.pos - 2))
                                       THEN Move(Move(NoteStash(v.m, v.pos - 2,
                                                                Hole_new(v.pos, Rd(m, s + i))),
                                                      v.pos, v.pos - 1),
                                                 v.pos - 1, v.pos - 2)
                                       ELSE NoteStash(v.m, v.pos - 2,
                                                      Hole_new(v.pos, Rd(m, s + i))),
                                 pos |-> v.pos
                                         - conditional(0, 2, less(Rd(m, s + i),
                                                                  Rd(v.m, v.pos - 2))),
                                 go |-> less(Rd(m, s + i), Rd(v.m, v.pos - 2))]
                           ELSE [v EXCEPT !.go = FALSE],
                       [m |-> Touch(m, s + i), pos |-> s + i, go |-> TRUE])}})

\* The body of `for i in i..n`: insert s[i] into the sorted s[0..i).
insert_sort_one(m, s, i) ==
    The({IF sh.pos > s
         THEN Hole_drop(Move(NoteStash(sh.m, sh.pos - 1, Hole_new(sh.pos, Rd(m, s + i))),
                             sh.pos, sh.pos - 1),
                        Hole_new(sh.pos - conditional(0, 1, less(Rd(m, s + i),
                                                                  Rd(sh.m, sh.pos - 1))),
                                 Rd(m, s + i)))
         ELSE Hole_drop(sh.m, Hole_new(sh.pos, Rd(m, s + i))) :
         sh \in {While(LAMBDA v : v.go,
                       LAMBDA v :
                           IF v.pos > s + 1
                           THEN [m |-> IF less(Rd(m, s + i), Rd(v.m, v.pos - 2))
                                       THEN Move(Move(NoteStash(v.m, v.pos - 2,
                                                                Hole_new(v.pos, Rd(m, s + i))),
                                                      v.pos, v.pos - 1),
                                                 v.pos - 1, v.pos - 2)
                                       ELSE NoteStash(v.m, v.pos - 2,
                                                      Hole_new(v.pos, Rd(m, s + i))),
                                 pos |-> v.pos
                                         - conditional(0, 2, less(Rd(m, s + i),
                                                                  Rd(v.m, v.pos - 2))),
                                 go |-> less(Rd(m, s + i), Rd(v.m, v.pos - 2))]
                           ELSE [v EXCEPT !.go = FALSE],
                       [m |-> Touch(m, s + i), pos |-> s + i, go |-> TRUE])}})

insert_sort(m, s, i0, n) ==
    While(LAMBDA v : v.i < n,
          LAMBDA v : [m |-> Call("insert_sort_one", <<v.m, s, v.i>>), i |-> v.i + 1],
          [m |-> m, i |-> i0]).m

----------------------------------------------------------------------------
(* scan.rs *)

\* A next_non_desc_run that looks one element past the end.
next_non_desc_run_past(m, s, n) ==
    The({[m |-> lp.m, r |-> IF lp.found THEN lp.i ELSE n] :
         lp \in {While(LAMBDA v : v.i <= n /\ ~v.found,
                       LAMBDA v :
                           [m |-> Note(v.m, s + v.i, s + v.i - 1, NoHole),
                            i |-> v.i + conditional(1, 0, Lt(v.m, s + v.i, s + v.i - 1, FALSE)),
                            found |-> Lt(v.m, s + v.i, s + v.i - 1, FALSE)],
                       [m |-> m, i |-> 1, found |-> FALSE])}})

next_non_desc_run(m, s, n) ==
    The({[m |-> lp.m, r |-> IF lp.found THEN lp.i ELSE n] :
         lp \in {While(LAMBDA v : v.i < n /\ ~v.found,
                       LAMBDA v :
                           [m |-> Note(v.m, s + v.i, s + v.i - 1, NoHole),
                            i |-> v.i + conditional(1, 0, Lt(v.m, s + v.i, s + v.i - 1, FALSE)),
                            found |-> Lt(v.m, s + v.i, s + v.i - 1, FALSE)],
                       [m |-> m, i |-> 1, found |-> FALSE])}})

\* A next_sorted_run that reverses the descending run whole, its equal segments
\* not flipped beforehand.
next_sorted_run_whole(m, s, n) ==
    The({IF first.r = n \/ (first.r > 1 /\ Lt(first.m, s, s + first.r - 1, FALSE))
         THEN [m |-> first.m, r |-> first.r]
         ELSE The({[m |-> Call("reverse", <<first.m, s, s + lp.i>>), r |-> lp.i] :
                   lp \in {While(LAMBDA v : v.go,
                                 LAMBDA v :
                                     IF v.i + 1 = n THEN [v EXCEPT !.i = n, !.go = FALSE]
                                     ELSE [v EXCEPT !.i = v.i + 1,
                                                    !.go = ~Lt(v.m, s + v.i, s + v.i + 1,
                                                               FALSE)],
                                 [m |-> first.m, i |-> first.r, go |-> TRUE])}}) :
         first \in {Call("next_non_desc_run", <<m, s, n>>)}})

next_sorted_run(m, s, n) ==
    The({IF first.r = n \/ (first.r > 1 /\ Lt(first.m, s, s + first.r - 1, FALSE))
         THEN [m |-> IF first.r = n THEN first.m
                     ELSE Note(first.m, s, s + first.r - 1, NoHole),
               r |-> first.r]
         ELSE The({[m |-> Call("reverse", <<Call("reverse", <<lp.m, lp.l, s + lp.i>>),
                                            s, s + lp.i>>),
                    r |-> lp.i] :
                   \* Flip equal segments until we reach an ascending pair
                   lp \in {While(LAMBDA v : v.go,
                                 LAMBDA v :
                                     IF v.i + 1 = n THEN [v EXCEPT !.i = n, !.go = FALSE]
                                     ELSE IF Lt(v.m, s + v.i + 1, s + v.i, FALSE)
                                     THEN [m |-> Call("reverse",
                                                      <<Note(v.m, s + v.i + 1, s + v.i, NoHole),
                                                        v.l, s + v.i + 1>>),
                                           i |-> v.i + 1, l |-> s + v.i + 1, go |-> TRUE]
                                     ELSE [m |-> Note(Note(v.m, s + v.i + 1, s + v.i, NoHole),
                                                      s + v.i, s + v.i + 1, NoHole),
                                           i |-> v.i + 1, l |-> v.l,
                                           go |-> ~Lt(v.m, s + v.i, s + v.i + 1, FALSE)],
                                 [m |-> Call("reverse",
                                             <<IF first.r > 1
                                               THEN Note(first.m, s, s + first.r - 1, NoHole)
                                               ELSE first.m,
                                               s, s + first.r>>),
                                  i |-> first.r, l |-> s + first.r, go |-> TRUE])}}) :
         first \in {Call("next_non_desc_run", <<m, s, n>>)}})

MIN_RUN == 32

next_multiple_of(x, k) == ((x + k - 1) \div k) * k

build_runs(m, s0, i0, n0) ==
    While(LAMBDA v : v.n > 0,
          LAMBDA v :
              The({The({[m |-> run.m, s |-> v.s + cnt + len, n |-> v.n - cnt - len,
                         i |-> v.s + cnt + len + run.r] :
                        run \in {Call("next_sorted_run",
                                      <<Call("insert_sort",
                                             <<v.m, v.s + cnt, Max(1, (v.i - v.s) % MIN_RUN),
                                               len>>),
                                        v.s + cnt + len, v.n - cnt - len>>)}}) :
                   cnt \in {next_multiple_of(v.i - v.s, MIN_RUN) - MIN_RUN},
                   len \in {Min(v.n - (next_multiple_of(v.i - v.s, MIN_RUN) - MIN_RUN),
                                MIN_RUN)}}),
          [m |-> m, s |-> s0, n |-> n0, i |-> Max(i0, s0 + 1)]).m

----------------------------------------------------------------------------
(* buffer.rs: Buffer::begin_merge (the merges below start with it) *)

Buffer_new(start, len, unsorted) == [start |-> start, len |-> len, unsorted |-> unsorted]

\* A begin_merge without the check of cnt.
Buffer_begin_merge_unchecked(m, b, dst, cnt) ==
    [m |-> Call("cycle_swap", <<m, b.start, dst, cnt>>),
     buf |-> [b EXCEPT !.unsorted = Max(b.unsorted, cnt)]]

\* Begin a merge operation by swapping `cnt` buffer elements into position at dst.
Buffer_begin_merge(m, b, dst, cnt) ==
    IF cnt = 0
    THEN [m |-> [m EXCEPT !.panic = TRUE], buf |-> b]
    ELSE [m |-> Call("cycle_swap", <<m, b.start, dst, cnt>>),
          buf |-> [b EXCEPT !.unsorted = Max(b.unsorted, cnt)]]

----------------------------------------------------------------------------
(* merge.rs *)

RATIO_BIN_MERGE == 8
MIN_FAST_LAZY == 512

\* x | y on usize
RECURSIVE BitOr(_, _)
BitOr(x, y) ==
    IF x = 0 THEN y
    ELSE IF y = 0 THEN x
    ELSE 2 * BitOr(x \div 2, y \div 2) + (IF x % 2 = 1 \/ y % 2 = 1 THEN 1 ELSE 0)

end_merge(m, dst, src, cnt) == IF dst # src THEN Call("cycle_swap", <<m, dst, src, cnt>>) ELSE m

\* A merge_right that takes the element of the second run when the two are
\* equal.
merge_right_ties(m, s1, n1, s2, n2, dst0, inv) ==
    The({[m |-> Call("end_merge", <<Hole_drop(lp.m, lp.hole), lp.dst,
                                    conditional(s1 + lp.i1, s2 + lp.i2, lp.i2 < n2),
                                    (n1 - lp.i1) + (n2 - lp.i2)>>),
          r |-> lp.i1 + lp.i2] :
         lp \in {While(LAMBDA v : v.i1 < n1 /\ v.i2 < n2,
                       LAMBDA v :
                           The({The({[m |-> c.m, hole |-> c.hole,
                                      i1 |-> v.i1 + conditional(1, 0, is_2),
                                      i2 |-> v.i2 + conditional(0, 1, is_2),
                                      dst |-> v.dst + 1] :
                                     c \in {Hole_cycle(NoteLt(v.m, s2 + v.i2, s1 + v.i1, inv,
                                                              v.hole),
                                                       v.hole,
                                                       conditional(s1 + v.i1, s2 + v.i2, is_2),
                                                       v.dst)}}) :
                                is_2 \in {~Lt(v.m, s1 + v.i1, s2 + v.i2, inv)}}),
                       [m |-> m, hole |-> NoHole, i1 |-> 0, i2 |-> 0, dst |-> dst0])}})

merge_right(m, s1, n1, s2, n2, dst0, inv) ==
    The({[m |-> Call("end_merge", <<Hole_drop(lp.m, lp.hole), lp.dst,
                                    conditional(s1 + lp.i1, s2 + lp.i2, lp.i2 < n2),
                                    (n1 - lp.i1) + (n2 - lp.i2)>>),
          r |-> lp.i1 + lp.i2] :
         lp \in {While(LAMBDA v : v.i1 < n1 /\ v.i2 < n2,
                       LAMBDA v :
                           The({The({[m |-> c.m, hole |-> c.hole,
                                      i1 |-> v.i1 + conditional(1, 0, is_2),
                                      i2 |-> v.i2 + conditional(0, 1, is_2),
                                      dst |-> v.dst + 1] :
                                     c \in {Hole_cycle(NoteLt(v.m, s2 + v.i2, s1 + v.i1, inv,
                                                              v.hole),
                                                       v.hole,
                                                       conditional(s1 + v.i1, s2 + v.i2, is_2),
                                                       v.dst)}}) :
                                is_2 \in {Lt(v.m, s2 + v.i2, s1 + v.i1, inv)}}),
                       [m |-> m, hole |-> NoHole, i1 |-> 0, i2 |-> 0, dst |-> dst0])}})

merge_left(m, s1, n10, s2, n20, dst, inv) ==
    The({Call("end_merge", <<Hole_drop(lp.m, lp.hole), dst, conditional(s1, s2, lp.n2 > 0),
                             BitOr(lp.n1, lp.n2)>>) :
         lp \in {While(LAMBDA v : v.n1 > 0 /\ v.n2 > 0,
                       LAMBDA v :
                           The({The({[m |-> c.m, hole |-> c.hole,
                                      n1 |-> v.n1 - conditional(0, 1, is_1),
                                      n2 |-> v.n2 - conditional(1, 0, is_1),
                                      dst_rev |-> v.dst_rev - 1] :
                                     c \in {Hole_cycle(NoteLt(v.m, s2 + v.n2 - 1, s1 + v.n1 - 1,
                                                              inv, v.hole),
                                                       v.hole,
                                                       conditional(
                                                           s2 + v.n2 - conditional(1, 0, is_1),
                                                           s1 + v.n1 - conditional(0, 1, is_1),
                                                           is_1),
                                                       v.dst_rev - 1)}}) :
                                is_1 \in {Lt(v.m, s2 + v.n2 - 1, s1 + v.n1 - 1, inv)}}),
                       [m |-> m, hole |-> NoHole, n1 |-> n10, n2 |-> n20,
                        dst_rev |-> dst + n10 + n20])}})

\* binary_merge_right: `f2 = bucket + 1; if !less(..) { f2 = i2 + search_left(..) }`
binary_merge_right_f2(v, s1, s2, inv) ==
    IF Lt(v.m, s2 + v.bucket, s1 + v.i1, inv)
    THEN [v EXCEPT !.m = NoteLt(v.m, s2 + v.bucket, s1 + v.i1, inv, v.hole),
                   !.f2 = v.bucket + 1]
    ELSE The({[v EXCEPT !.m = sr.m, !.f2 = v.i2 + sr.r] :
              sr \in {Call("search_left",
                           <<NoteLt(v.m, s2 + v.bucket, s1 + v.i1, inv, v.hole),
                             s2 + v.i2, v.bucket - v.i2, s1 + v.i1, inv, v.hole>>)}})

binary_merge_right(m, s1, n1, s2, n2, dst0, inv) ==
    LET gap == (n1 + n2 - 1) \div n1
        bucket0 == (n2 + gap - 1) % gap
    IN IF m.panic THEN [m |-> m, r |-> 0]
       ELSE The({[m |-> Call("end_merge",
                             <<Hole_drop(lp.m, lp.hole), lp.dst,
                               conditional(s1 + lp.i1, s2 + lp.i2, lp.i2 < n2),
                               (n1 - lp.i1) + (n2 - lp.i2)>>),
                  r |-> lp.i1 + lp.i2] :
                 lp \in {While(LAMBDA v : v.go /\ v.i2 < n2,
                               LAMBDA v :
                                   IF v.i2 < v.f2
                                   THEN The({[v EXCEPT !.m = c.m, !.hole = c.hole,
                                                       !.dst = v.dst + 1, !.i2 = v.i2 + 1] :
                                             c \in {Hole_cycle(v.m, v.hole, s2 + v.i2, v.dst)}})
                                   ELSE IF v.i2 > v.bucket
                                   THEN binary_merge_right_f2(
                                            [v EXCEPT !.bucket = v.bucket + gap], s1, s2, inv)
                                   ELSE The({IF v.i1 + 1 = n1
                                             THEN [v EXCEPT !.m = c.m, !.hole = c.hole,
                                                            !.dst = v.dst + 1, !.i1 = n1,
                                                            !.go = FALSE]
                                             ELSE binary_merge_right_f2(
                                                      [v EXCEPT !.m = c.m, !.hole = c.hole,
                                                                !.dst = v.dst + 1,
                                                                !.i1 = v.i1 + 1],
                                                      s1, s2, inv) :
                                             c \in {Hole_cycle(v.m, v.hole, s1 + v.i1, v.dst)}}),
                               The({[m |-> first.m, hole |-> NoHole, dst |-> dst0, i1 |-> 0,
                                     i2 |-> 0, bucket |-> bucket0, f2 |-> first.r,
                                     go |-> TRUE] :
                                    first \in {Call("search_left",
                                                    <<m, s2, bucket0 + 1, s1, inv,
                                                      NoHole>>)}}))}})

\* binary_merge_left: `f1 = bucket; if !less(..) { f1 += 1 + search_right(..) }`
binary_merge_left_f1(v, s1, s2, inv) ==
    IF Lt(v.m, s2 + v.n2 - 1, s1 + v.bucket, inv)
    THEN [v EXCEPT !.m = NoteLt(v.m, s2 + v.n2 - 1, s1 + v.bucket, inv, v.hole),
                   !.f1 = v.bucket]
    ELSE The({[v EXCEPT !.m = sr.m, !.f1 = v.bucket + 1 + sr.r] :
              sr \in {Call("search_right",
                           <<NoteLt(v.m, s2 + v.n2 - 1, s1 + v.bucket, inv, v.hole),
                             s1 + v.bucket + 1, v.n1 - v.bucket - 1, s2 + v.n2 - 1, inv,
                             v.hole>>)}})

binary_merge_left(m, s1, n10, s2, n20, dst, inv) ==
    LET gap == (n10 + n20 - 1) \div n20
        bucket0 == ((n10 - 1) \div gap) * gap
    IN IF m.panic THEN m
       ELSE The({Call("end_merge", <<Hole_drop(lp.m, lp.hole), dst,
                                     conditional(s1, s2, lp.n2 > 0), BitOr(lp.n1, lp.n2)>>) :
                 lp \in {While(LAMBDA v : v.go /\ v.n1 > 0,
                               LAMBDA v :
                                   IF v.n1 > v.f1
                                   THEN The({[v EXCEPT !.m = c.m, !.hole = c.hole,
                                                       !.dst_rev = v.dst_rev - 1,
                                                       !.n1 = v.n1 - 1] :
                                             c \in {Hole_cycle(v.m, v.hole, s1 + v.n1 - 1,
                                                               v.dst_rev - 1)}})
                                   ELSE IF v.n1 = v.bucket
                                   THEN binary_merge_left_f1(
                                            [v EXCEPT !.bucket = v.bucket - gap], s1, s2, inv)
                                   ELSE The({IF v.n2 - 1 = 0
                                             THEN [v EXCEPT !.m = c.m, !.hole = c.hole,
                                                            !.dst_rev = v.dst_rev - 1,
                                                            !.n2 = 0, !.go = FALSE]
                                             ELSE binary_merge_left_f1(
                                                      [v EXCEPT !.m = c.m, !.hole = c.hole,
                                                                !.dst_rev = v.dst_rev - 1,
                                                                !.n2 = v.n2 - 1],
                                                      s1, s2, inv) :
                                             c \in {Hole_cycle(v.m, v.hole, s2 + v.n2 - 1,
                                                               v.dst_rev - 1)}}),
                               The({[m |-> first.m, hole |-> NoHole,
                                     dst_rev |-> dst + n10 + n20, n1 |-> n10, n2 |-> n20,
                                     bucket |-> bucket0, f1 |-> bucket0 + first.r,
                                     go |-> TRUE] :
                                    first \in {Call("search_right",
                                                    <<m, s1 + bucket0, n10 - bucket0,
                                                      s2 + n20 - 1, inv, NoHole>>)}}))}})

\* The buffered branch of merge: begin_merge, a left merge, a right merge.
merge_buffered(m, b, s, n1, n2, rad) ==
    The({[m |-> IF rad > (n2 - rad) \div RATIO_BIN_MERGE
                THEN Call("merge_right",
                          <<Call(IF rad > (n1 - rad) \div RATIO_BIN_MERGE
                                 THEN "merge_left" ELSE "binary_merge_left",
                                 <<bm.m, s, n1 - rad, s + n1, rad, s, FALSE>>),
                            b.start, rad, s + n1 + rad, n2 - rad, s + n1, FALSE>>).m
                ELSE Call("binary_merge_right",
                          <<Call(IF rad > (n1 - rad) \div RATIO_BIN_MERGE
                                 THEN "merge_left" ELSE "binary_merge_left",
                                 <<bm.m, s, n1 - rad, s + n1, rad, s, FALSE>>),
                            b.start, rad, s + n1 + rad, n2 - rad, s + n1, FALSE>>).m,
          buf |-> bm.buf, r |-> TRUE] :
         bm \in {Call("Buffer_begin_merge", <<m, b, s + n1 - rad, rad>>)}})

\* The test of merge with the shorter run in place of the longer.
merge_too_long_min(n1, n2, rad, len) == Min(n1, n2) - rad > len

\* merge: `usize::max(n1, n2) - rad > buf.len`, too long a rest to split.
merge_too_long(n1, n2, rad, len) == Max(n1, n2) - rad > len

\* merge: "split case into two merges", the radii swapped already.
merge_split(m, b, s, n1, n2, rad) ==
    The({IF left.r THEN Call("merge", <<left.m, left.buf, s + n1, rad, n2 - rad>>) ELSE left :
         left \in {Call("merge", <<m, b, s, n1 - rad, rad>>)}})

\* merge(buf, s, n1, n2, less): r is FALSE if the merge could not be completed.
merge(m, b, s, n1, n2) ==
    IF n1 = 0 \/ n2 = 0 THEN [m |-> m, buf |-> b, r |-> TRUE]
    ELSE IF ~Lt(m, s + n1, s + n1 - 1, FALSE)
    THEN [m |-> Note(m, s + n1, s + n1 - 1, NoHole), buf |-> b, r |-> TRUE]
    ELSE IF Lt(m, s + n1 + n2 - 1, s, FALSE)
    THEN [m |-> Call("rotate", <<Note(Note(m, s + n1, s + n1 - 1, NoHole),
                                      s + n1 + n2 - 1, s, NoHole), s, n1, n2>>),
          buf |-> b, r |-> TRUE]
    ELSE The({IF bsl.r > b.len
              THEN IF merge_too_long(n1, n2, bsl.r, b.len)
                   THEN [m |-> bsl.m, buf |-> b, r |-> FALSE]
                   ELSE merge_split(swap_nonoverlapping(bsl.m, s + n1 - bsl.r, s + n1, bsl.r),
                                    b, s, n1, n2, bsl.r)
              ELSE Call("merge_buffered", <<bsl.m, b, s, n1, n2, bsl.r>>) :
              bsl \in {Call("block_swap_length",
                            <<Note(Note(m, s + n1, s + n1 - 1, NoHole),
                                   s + n1 + n2 - 1, s, NoHole), s, n1, s + n1, n2, FALSE>>)}})

\* merge_lazy, n2 <= n1: the rest of the loop body after the rotation.
merge_lazy_left(m, s, next_1, n2, inv) ==
    IF next_1 = 0 THEN [m |-> m, n1 |-> 0, n2 |-> n2, go |-> FALSE]
    ELSE The({[m |-> sl.m, n1 |-> next_1, n2 |-> sl.r, go |-> TRUE] :
              sl \in {Call("search_left",
                           <<m, s + next_1, n2 - 1, s + next_1 - 1, inv, NoHole>>)}})

\* merge_lazy, n1 < n2: the rest of the loop body after the rotation.
merge_lazy_right(m, s, n1, n2, inv) ==
    IF n2 = 0 THEN [m |-> m, s |-> s, n1 |-> n1, n2 |-> 0, go |-> FALSE]
    ELSE The({[m |-> sr.m, s |-> s + 1 + sr.r, n1 |-> n1 - (1 + sr.r), n2 |-> n2,
               go |-> TRUE] :
              sr \in {Call("search_right", <<m, s + 1, n1 - 1, s + n1, inv, NoHole>>)}})

merge_lazy(m, s0, n10, n20, inv) ==
    IF n20 <= n10
    THEN While(LAMBDA v : v.go /\ v.n2 > 0,
               LAMBDA v :
                   The({merge_lazy_left(Call("rotate", <<sr.m, s0 + sr.r, v.n1 - sr.r, v.n2>>),
                                        s0, sr.r, v.n2, inv) :
                        sr \in {Call("search_right",
                                     <<v.m, s0, v.n1, s0 + v.n1 + v.n2 - 1, inv, NoHole>>)}}),
               [m |-> m, n1 |-> n10, n2 |-> n20, go |-> TRUE]).m
    ELSE While(LAMBDA v : v.go /\ v.n1 > 0,
               LAMBDA v :
                   The({merge_lazy_right(Call("rotate", <<sl.m, v.s, v.n1, sl.r>>),
                                         v.s + sl.r, v.n1, v.n2 - sl.r, inv) :
                        sl \in {Call("search_left",
                                     <<v.m, v.s + v.n1, v.n2, v.s, inv, NoHole>>)}}),
               [m |-> m, s |-> s0, n1 |-> n10, n2 |-> n20, go |-> TRUE]).m

\* usize::next_power_of_two
RECURSIVE next_power_of_two(_)
next_power_of_two(x) == IF x <= 1 THEN 1 ELSE 2 * next_power_of_two((x + 1) \div 2)

\* A block swap whose right merge case keeps the whole right run: n2 for n2 - rad.
merge_in_place_swap_kept(v, log_step) ==
    The({IF v.n2 < v.n1
         THEN [m |-> Call("merge_lazy",
                          <<swap_nonoverlapping(bsl.m, v.s + v.n1 - bsl.r, v.s + v.n1, bsl.r),
                            v.s + v.n1, bsl.r, v.n2 - bsl.r, FALSE>>),
               s |-> v.s, n1 |-> v.n1, n2 |-> bsl.r, log_step |-> log_step,
               go |-> TRUE]
         ELSE [m |-> Call("merge_lazy",
                          <<swap_nonoverlapping(bsl.m, v.s + v.n1 - bsl.r, v.s + v.n1, bsl.r),
                            v.s, v.n1 - bsl.r, bsl.r, FALSE>>),
               s |-> v.s + v.n1, n1 |-> bsl.r, n2 |-> v.n2, log_step |-> log_step,
               go |-> TRUE] :
         bsl \in {Call("block_swap_length", <<v.m, v.s, v.n1, v.s + v.n1, v.n2, FALSE>>)}})

\* merge_in_place: the block swap that reduces the case to a left or a right
\* merge, with the milestone log_step.
merge_in_place_swap(v, log_step) ==
    The({IF v.n2 < v.n1
         THEN [m |-> Call("merge_lazy",
                          <<swap_nonoverlapping(bsl.m, v.s + v.n1 - bsl.r, v.s + v.n1, bsl.r),
                            v.s + v.n1, bsl.r, v.n2 - bsl.r, FALSE>>),
               s |-> v.s, n1 |-> v.n1 - bsl.r, n2 |-> bsl.r, log_step |-> log_step,
               go |-> TRUE]
         ELSE [m |-> Call("merge_lazy",
                          <<swap_nonoverlapping(bsl.m, v.s + v.n1 - bsl.r, v.s + v.n1, bsl.r),
                            v.s, v.n1 - bsl.r, bsl.r, FALSE>>),
               s |-> v.s + v.n1, n1 |-> bsl.r, n2 |-> v.n2 - bsl.r, log_step |-> log_step,
               go |-> TRUE] :
         bsl \in {Call("block_swap_length", <<v.m, v.s, v.n1, v.s + v.n1, v.n2, FALSE>>)}})

\* merge_in_place: the head of a round of its `loop`, the test against the
\* milestone: go is FALSE when the call returns from here.
merge_in_place_test(v) ==
    IF v.n1 <= v.log_step \/ v.n2 <= v.log_step
    THEN IF Min(v.n1, v.n2) = 0 THEN [v EXCEPT !.go = FALSE]
         \* Break at ratio `sqrt n : n`
         ELSE IF Min(v.n1, v.n2) * 2 + 1 < (v.n1 + v.n2) \div Min(v.n1, v.n2)
         THEN [v EXCEPT !.m = Call("merge_lazy", <<v.m, v.s, v.n1, v.n2, FALSE>>),
                        !.go = FALSE]
         ELSE [v EXCEPT !.log_step = next_power_of_two(Min(v.n1, v.n2)) \div 2]
    ELSE v

\* merge_in_place: one round of its `loop`.
merge_in_place_step(v) ==
    The({IF t.go THEN merge_in_place_swap(t, t.log_step) ELSE t :
         t \in {merge_in_place_test(v)}})

\* merge_in_place: "trim right run", the state the loop starts from.
merge_in_place_trim(m, s0, n10, n20) ==
    The({[m |-> trim.m, s |-> s0, n1 |-> n10, n2 |-> trim.r, log_step |-> trim.r,
          go |-> TRUE] :
         trim \in {Call("search_left",
                        <<Note(m, s0 + n10, s0 + n10 - 1, NoHole), s0 + n10, n20,
                          s0 + n10 - 1, FALSE, NoHole>>)}})

\* merge_in_place returns at once, or hands over to merge_lazy, before its loop.
merge_in_place_short(m, s0, n10, n20) ==
    n10 = 0 \/ n20 = 0 \/ ~Lt(m, s0 + n10, s0 + n10 - 1, FALSE)
        \/ BitOr(n10, n20) < MIN_FAST_LAZY

merge_in_place(m, s0, n10, n20) ==
    IF n10 = 0 \/ n20 = 0 THEN m
    ELSE IF ~Lt(m, s0 + n10, s0 + n10 - 1, FALSE) THEN Note(m, s0 + n10, s0 + n10 - 1, NoHole)
    ELSE IF BitOr(n10, n20) < MIN_FAST_LAZY
    THEN Call("merge_lazy", <<Note(m, s0 + n10, s0 + n10 - 1, NoHole), s0, n10, n20, FALSE>>)
    ELSE While(LAMBDA v : v.go, merge_in_place_step,
               merge_in_place_trim(m, s0, n10, n20)).m

----------------------------------------------------------------------------
(* buffer.rs *)

\* ptr_sub(r, l) is r - l; it assumes l <= r.
ptr_sub_ok(m, r, l) == assert_unchecked(m, l <= r)

\* Buffer::insert(item, index)
Buffer_insert(m, b, item, index) ==
    [m |-> Call("insert_right",
                <<Call("rotate", <<ptr_sub_ok(m, b.start, item), item + 1,
                                   (b.start - item) - 1, b.len>>),
                  item, index>>),
     buf |-> [b EXCEPT !.start = item, !.len = b.len + 1]]

\* Buffer::shift(dst)
Buffer_shift(m, b, dst) ==
    [m |-> IF dst < b.start THEN Call("rotate", <<m, dst, b.start - dst, b.len>>)
           ELSE Call("rotate", <<m, b.start, b.len, dst - b.start>>),
     buf |-> [b EXCEPT !.start = dst]]

MIN_BINARY_INSERT == 128

\* Buffer::sort(less): the memory after it.
Buffer_sort_mem(m, b) ==
    IF b.unsorted > MIN_BINARY_INSERT
    THEN While(LAMBDA v : v.i < b.unsorted,
               LAMBDA v :
                   The({[m |-> Call("insert_left", <<sr.m, b.start + v.i, v.i - sr.r>>),
                         i |-> v.i + 1] :
                        sr \in {Call("search_right",
                                     <<v.m, b.start, v.i, b.start + v.i, FALSE, NoHole>>)}}),
               [m |-> Call("insert_sort", <<m, b.start, 1, MIN_BINARY_INSERT>>),
                i |-> MIN_BINARY_INSERT]).m
    ELSE Call("insert_sort", <<m, b.start, 1, b.unsorted>>)

\* Buffer::sort(less): it assigns none of the buffer's fields.
Buffer_sort(m, b) == [m |-> Call("Buffer_sort_mem", <<m, b>>), buf |-> b]

\* Buffer::binary_find_keys(s, i, ideal, less)
binary_find_keys(m, b, s, i0, ideal) ==
    The({[m |-> lp.m, buf |-> lp.buf] :
         lp \in {While(LAMBDA v : v.i > s /\ v.buf.len < ideal,
                       LAMBDA v :
                           The({IF sl.r = v.buf.len
                                THEN Call("Buffer_insert", <<sl.m, v.buf, v.i - 1, sl.r>>)
                                     @@ [i |-> v.i - 1]
                                ELSE IF Lt(v.m, v.i - 1, v.buf.start + sl.r, FALSE)
                                THEN Call("Buffer_insert",
                                          <<Note(sl.m, v.i - 1, v.buf.start + sl.r, NoHole),
                                            v.buf, v.i - 1, sl.r>>)
                                     @@ [i |-> v.i - 1]
                                ELSE [m |-> Note(sl.m, v.i - 1, v.buf.start + sl.r, NoHole),
                                      buf |-> v.buf, i |-> v.i - 1] :
                                sl \in {Call("search_left",
                                             <<v.m, v.buf.start, v.buf.len, v.i - 1, FALSE,
                                               NoHole>>)}}),
                       [m |-> m, buf |-> b, i |-> i0])}})

\* Buffer::block_find_keys(s, i, ideal, less)
\* block_find_keys, the virtual merge: one round of its loop.
block_find_keys_merge(v) ==
    IF Lt(v.m, v.i - 1, v.b - 1, FALSE)
    THEN [v EXCEPT !.m = Note(v.m, v.i - 1, v.b - 1, NoHole), !.b = v.b - 1]
    ELSE IF Lt(v.m, v.b - 1, v.i - 1, FALSE)
    THEN Call("Buffer_insert",
              <<ptr_sub_ok(ptr_sub_ok(Note(Note(v.m, v.i - 1, v.b - 1, NoHole), v.b - 1,
                                           v.i - 1, NoHole),
                                      v.buf.start, v.i - 1),
                           v.b - ((v.buf.start - (v.i - 1)) - 1), v.i - 1),
                v.buf, v.i - 1, ((v.b - ((v.buf.start - (v.i - 1)) - 1)) - (v.i - 1)) - 1>>)
         @@ [i |-> v.i - 1, b |-> v.b - ((v.buf.start - (v.i - 1)) - 1)]
    ELSE [v EXCEPT !.m = Note(Note(v.m, v.i - 1, v.b - 1, NoHole), v.b - 1, v.i - 1, NoHole),
                   !.i = v.i - 1]

\* block_find_keys, the new minimums: one round of its loop.
block_find_keys_min(v) ==
    IF Lt(v.m, v.i - 1, v.buf.start, FALSE)
    THEN Call("Buffer_insert",
              <<Note(v.m, v.i - 1, v.buf.start, NoHole), v.buf, v.i - 1, 0>>)
         @@ [i |-> v.i - 1]
    ELSE [v EXCEPT !.m = Note(v.m, v.i - 1, v.buf.start, NoHole), !.i = v.i - 1]

block_find_keys(m, b0, s, i0, ideal) ==
    The({[m |-> lp.m, buf |-> lp.buf] :
         lp \in {While(LAMBDA v : v.i > s /\ v.buf.len < ideal,
                       block_find_keys_min,
                       \* Collect keys with a virtual merge
                       The({[m |-> lp1.m, buf |-> lp1.buf, i |-> lp1.i] :
                            lp1 \in {While(LAMBDA v : v.i > s /\ v.b > v.buf.start
                                                      /\ v.buf.len < ideal,
                                           block_find_keys_merge,
                                           The({[m |-> sl.m, buf |-> b0, i |-> i0,
                                                 b |-> b0.start + sl.r + 1] :
                                                sl \in {Call("search_left",
                                                             <<m, b0.start, b0.len - 1, i0 - 1,
                                                               FALSE, NoHole>>)}}))}}))}})

\* Buffer::batch_find_keys(s, i, ideal, less): s..i is sorted and the buffer
\* holds keys already, so the block variant applies.
batch_find_keys(m, b, s, i, ideal) == Call("block_find_keys", <<m, b, s, i, ideal>>)

----------------------------------------------------------------------------
(* blocks.rs *)

\* A sorted_from_runs that puts the first B block before an A block with a
\* head equal to its own.
sorted_from_runs_ties(m, s, keys, n1, n2, block_len) ==
    LET c1 == n1 \div block_len
        count == c1 + n2 \div block_len
        val == s + block_len - 1
        hd(i) == val + i * block_len
        block_swap(mm, i, j) ==
            swap_nonoverlapping(ptr_swap(mm, keys + i, keys + j),
                                s + i * block_len, s + j * block_len, block_len)
        find == While(LAMBDA v : v.i < c1 /\ ~v.found,
                      LAMBDA v : LET m1 == Note(v.m, hd(c1), hd(v.i), NoHole)
                                 IN IF ~Lt(v.m, hd(v.i), hd(c1), FALSE)
                                    THEN [m |-> m1, i |-> v.i, found |-> TRUE]
                                    ELSE [m |-> m1, i |-> v.i + 1, found |-> FALSE],
                      [m |-> m, i |-> 0, found |-> FALSE])
        mid == find.i
        \* Optimized selection sort
        sel == While(LAMBDA v : v.i < v.mb,
                     LAMBDA v :
                         LET last == v.mb = count
                             m1 == IF last THEN v.m ELSE Note(v.m, hd(v.mb), hd(v.ma), NoHole)
                             takeA == last \/ ~Lt(v.m, hd(v.mb), hd(v.ma), FALSE)
                             m2 == IF v.ma # v.i THEN block_swap(m1, v.i, v.ma) ELSE m1
                             ma0 == Max(c1, v.i + 1)
                             scan == While(LAMBDA w : w.j < v.mb,
                                           LAMBDA w :
                                               [m |-> Note(w.m, keys + w.j, keys + w.ma, NoHole),
                                                ma |-> conditional(w.ma, w.j,
                                                         Lt(w.m, keys + w.j, keys + w.ma, FALSE)),
                                                j |-> w.j + 1],
                                           [m |-> m2, ma |-> ma0, j |-> ma0 + 1])
                         IN IF takeA
                            THEN [m |-> scan.m, ma |-> scan.ma, mb |-> v.mb, i |-> v.i + 1]
                            ELSE [m |-> block_swap(m1, v.i, v.mb),
                                  ma |-> conditional(v.ma, v.mb, v.ma = v.i),
                                  mb |-> v.mb + 1, i |-> v.i + 1],
                     [m |-> block_swap(find.m, mid, c1), ma |-> c1, mb |-> c1 + 1,
                      i |-> mid + 1])
    IN IF ~find.found
       THEN [m |-> find.m, blocks |-> [keys |-> keys, mid |-> c1, count |-> count]]
       ELSE [m |-> sel.m, blocks |-> [keys |-> keys, mid |-> mid, count |-> count]]

\* Blocks::sorted_from_runs: the memory and the Blocks {keys, mid, count}.
sorted_from_runs(m, s, keys, n1, n2, block_len) ==
    LET c1 == n1 \div block_len
        count == c1 + n2 \div block_len
        val == s + block_len - 1
        hd(i) == val + i * block_len
        block_swap(mm, i, j) ==
            swap_nonoverlapping(ptr_swap(mm, keys + i, keys + j),
                                s + i * block_len, s + j * block_len, block_len)
        find == While(LAMBDA v : v.i < c1 /\ ~v.found,
                      LAMBDA v : LET m1 == Note(v.m, hd(c1), hd(v.i), NoHole)
                                 IN IF Lt(v.m, hd(c1), hd(v.i), FALSE)
                                    THEN [m |-> m1, i |-> v.i, found |-> TRUE]
                                    ELSE [m |-> m1, i |-> v.i + 1, found |-> FALSE],
                      [m |-> m, i |-> 0, found |-> FALSE])
        mid == find.i
        \* Optimized selection sort
        sel == While(LAMBDA v : v.i < v.mb,
                     LAMBDA v :
                         LET last == v.mb = count
                             m1 == IF last THEN v.m ELSE Note(v.m, hd(v.mb), hd(v.ma), NoHole)
                             takeA == last \/ ~Lt(v.m, hd(v.mb), hd(v.ma), FALSE)
                             m2 == IF v.ma # v.i THEN block_swap(m1, v.i, v.ma) ELSE m1
                             ma0 == Max(c1, v.i + 1)
                             scan == While(LAMBDA w : w.j < v.mb,
                                           LAMBDA w :
                                               [m |-> Note(w.m, keys + w.j, keys + w.ma, NoHole),
                                                ma |-> conditional(w.ma, w.j,
                                                         Lt(w.m, keys + w.j, keys + w.ma, FALSE)),
                                                j |-> w.j + 1],
                                           [m |-> m2, ma |-> ma0, j |-> ma0 + 1])
                         IN IF takeA
                            THEN [m |-> scan.m, ma |-> scan.ma, mb |-> v.mb, i |-> v.i + 1]
                            ELSE [m |-> block_swap(m1, v.i, v.mb),
                                  ma |-> conditional(v.ma, v.mb, v.ma = v.i),
                                  mb |-> v.mb + 1, i |-> v.i + 1],
                     [m |-> block_swap(find.m, mid, c1), ma |-> c1, mb |-> c1 + 1,
                      i |-> mid + 1])
    IN IF ~find.found
       THEN [m |-> find.m, blocks |-> [keys |-> keys, mid |-> c1, count |-> count]]
       ELSE [m |-> sel.m, blocks |-> [keys |-> keys, mid |-> mid, count |-> count]]

\* A Blocks::pop without the guard `i != self.mid`.
Blocks_pop_unguarded(m, blocks, i) ==
    IF Lt(m, blocks.keys + i, blocks.keys + blocks.mid, FALSE)
    THEN [m |-> Call("insert_left", <<Note(m, blocks.keys + i, blocks.keys + blocks.mid, NoHole),
                                      blocks.keys + i, i - blocks.mid>>),
          blocks |-> [blocks EXCEPT !.mid = blocks.mid + 1], r |-> TRUE]
    ELSE [m |-> Note(m, blocks.keys + i, blocks.keys + blocks.mid, NoHole),
          blocks |-> blocks, r |-> FALSE]

\* Blocks::pop(i): whether block i came from the left run.
Blocks_pop(m, blocks, i) ==
    LET cmp == i # blocks.mid
        block_is_a == cmp /\ Lt(m, blocks.keys + i, blocks.keys + blocks.mid, FALSE)
        m1 == IF cmp THEN Note(m, blocks.keys + i, blocks.keys + blocks.mid, NoHole) ELSE m
    IN IF block_is_a
       THEN [m |-> Call("insert_left", <<m1, blocks.keys + i, i - blocks.mid>>),
             blocks |-> [blocks EXCEPT !.mid = blocks.mid + 1], r |-> TRUE]
       ELSE [m |-> m1, blocks |-> blocks, r |-> FALSE]

\* local_merge past its early return and `buf.begin_merge` (its result is bm):
\* rad elements of the left run are in the buffer.
local_merge_rad(bm, b, s, n1, n2, invert, rad) ==
    The({[m |-> mr.m, buf |-> bm.buf, r |-> mr.r] :
         mr \in {IF invert
                 THEN Call("merge_right",
                           <<IF rad > (n1 - rad) \div RATIO_BIN_MERGE
                             THEN Call("merge_left",
                                       <<bm.m, s + n1, rad, s, n1 - rad, s, FALSE>>)
                             ELSE Call("binary_merge_left",
                                       <<bm.m, s, n1 - rad, s + n1, rad, s, invert>>),
                             s + n1 + rad, n2 - rad, b.start, rad, s + n1, FALSE>>)
                 ELSE Call("merge_right",
                           <<IF rad > (n1 - rad) \div RATIO_BIN_MERGE
                             THEN Call("merge_left",
                                       <<bm.m, s, n1 - rad, s + n1, rad, s, FALSE>>)
                             ELSE Call("binary_merge_left",
                                       <<bm.m, s, n1 - rad, s + n1, rad, s, invert>>),
                             b.start, rad, s + n1 + rad, n2 - rad, s + n1, FALSE>>)}})

\* A local_merge without the return for runs that are in order already.
local_merge_unchecked(m, b, s, n1, n2, invert) ==
    The({local_merge_rad(Call("Buffer_begin_merge", <<bsl.m, b, s + n1 - bsl.r, bsl.r>>),
                         b, s, n1, n2, invert, bsl.r) :
         bsl \in {Call("block_swap_length",
                       <<IF invert THEN Note(m, s + n1 - 1, s + n1, NoHole)
                         ELSE Note(m, s + n1, s + n1 - 1, NoHole),
                         s, n1, s + n1, n2 - 1, invert>>)}})

local_merge(m, b, s, n1, n2, invert) ==
    IF invert /\ Lt(m, s + n1 - 1, s + n1, FALSE)
    THEN [m |-> Note(m, s + n1 - 1, s + n1, NoHole), buf |-> b, r |-> 0]
    ELSE IF ~invert /\ ~Lt(m, s + n1, s + n1 - 1, FALSE)
    THEN [m |-> Note(m, s + n1, s + n1 - 1, NoHole), buf |-> b, r |-> 0]
    ELSE The({local_merge_rad(Call("Buffer_begin_merge", <<bsl.m, b, s + n1 - bsl.r, bsl.r>>),
                              b, s, n1, n2, invert, bsl.r) :
              bsl \in {Call("block_swap_length",
                            <<IF invert THEN Note(m, s + n1 - 1, s + n1, NoHole)
                              ELSE Note(m, s + n1, s + n1 - 1, NoHole),
                              s, n1, s + n1, n2 - 1, invert>>)}})

local_merge_lazy(m, s, n1, n2, invert) ==
    LET sr == IF invert THEN Call("search_right", <<m, s + n1, n2, s + n1 - 1, FALSE, NoHole>>)
              ELSE Call("search_left", <<m, s + n1, n2, s + n1 - 1, FALSE, NoHole>>)
        head == sr.r
    IN [m |-> Call("merge_lazy", <<sr.m, s, n1, head, invert>>), r |-> head]

\* block_merge(buf, s, n1, n2, block_len, in_place, less)
block_merge(m, b, s, n1, n2, block_len, in_place) ==
    LET keys == b.start + (IF in_place THEN 0 ELSE b.len)
        sorted == Call("sorted_from_runs", <<m, s, keys, n1, n2, block_len>>)
        lp == While(LAMBDA v : v.i < sorted.blocks.count,
                    LAMBDA v :
                        LET p == Call("Blocks_pop", <<v.m, v.blocks, v.i>>)
                            pos == v.i * block_len
                            lm == IF in_place
                                  THEN LET l == Call("local_merge_lazy", <<p.m, s + v.frag, pos - v.frag,
                                                                 block_len, v.block_was_b>>)
                                       IN [m |-> l.m, buf |-> v.buf, r |-> l.r]
                                  ELSE Call("local_merge", <<p.m, v.buf, s + v.frag, pos - v.frag,
                                                   block_len, v.block_was_b>>)
                        IN IF p.r # v.block_was_b
                           THEN [v EXCEPT !.m = p.m, !.blocks = p.blocks, !.i = v.i + 1]
                           ELSE [m |-> lm.m, buf |-> lm.buf, blocks |-> p.blocks,
                                 block_was_b |-> ~v.block_was_b, frag |-> pos + lm.r,
                                 i |-> v.i + 1],
                    [m |-> sorted.m, buf |-> b, blocks |-> sorted.blocks,
                     block_was_b |-> sorted.blocks.mid = 0, frag |-> 0,
                     i |-> sorted.blocks.mid])
    IN [m |-> lp.m, buf |-> lp.buf, r |-> lp.frag]

----------------------------------------------------------------------------
(* dust.rs *)

MIN_SCAN == 8
MIN_MERGE_SORT == 64
MIN_OPT_FIND_KEYS == 4096
MIN_DISTINCT == 12
MAX_APPEND_BLOCKS == 3

\* usize::ilog2
RECURSIVE ilog2(_)
ilog2(x) == IF x <= 1 THEN 0 ELSE 1 + ilog2(x \div 2)

\* An array_block_length that doubles k when k = n / k as well.
array_block_length_eager(n) ==
    LET k == 2 ^ ((ilog2(n) + 1) \div 2)
    IN IF k <= n \div k THEN 2 * k ELSE k

array_block_length(n) ==
    LET k == 2 ^ ((ilog2(n) + 1) \div 2)
    IN IF k < n \div k THEN 2 * k ELSE k

buffer_block_length(buf_len) == 2 * 2 ^ ilog2((buf_len + 2) \div 3)

merge_sort_in_place(m, s, head, n, run0) ==
    While(LAMBDA v : v.run < n,
          LAMBDA v :
              LET pairs == While(LAMBDA w : w.l + 2 * v.run <= n,
                                 LAMBDA w : [m |-> Call("merge_in_place", <<w.m, s + w.l, v.run, v.run>>),
                                             l |-> w.l + 2 * v.run],
                                 [m |-> v.m, l |-> head - (head % (2 * v.run))])
                  l == pairs.l
              IN [m |-> IF l + v.run < n
                        THEN Call("merge_in_place", <<pairs.m, s + l, v.run, n - (l + v.run)>>)
                        ELSE pairs.m,
                  run |-> 2 * v.run],
          [m |-> m, run |-> run0]).m

sort_special(m, s, n, head, tail) ==
    LET m1 == Call("build_runs", <<m, s, s + head, n - tail>>)
        m2 == Call("merge_sort_in_place", <<m1, s, head, n - tail, MIN_RUN>>)
        m3 == Call("build_runs", <<m2, s, s + (n - tail), n>>)
    IN IF tail > 0 THEN Call("merge_sort_in_place", <<m3, s, n - tail, n, MIN_RUN>>) ELSE m2

\* A pass whose merge after block_merge leaves the remainder out.
bms_buffered_pass_short(m, b, s, n, run, block_len, head_run, tail_start) ==
    LET pairs == While(LAMBDA v : v.l + 2 * run <= n,
                       LAMBDA v :
                           LET mg == Call("merge", <<v.m, v.buf, s + v.l, run, run>>)
                               bm == Call("block_merge", <<mg.m, mg.buf, s + v.l, run, run, block_len,
                                                 FALSE>>)
                           IN IF mg.r THEN [m |-> mg.m, buf |-> mg.buf, l |-> v.l + 2 * run]
                              ELSE [m |-> bm.m, buf |-> bm.buf, l |-> v.l + 2 * run],
                       [m |-> m, buf |-> b, l |-> IF run < head_run THEN tail_start ELSE 0])
        l == pairs.l
        mg == Call("merge", <<pairs.m, pairs.buf, s + l, run, n - (l + run)>>)
        bm == Call("block_merge", <<mg.m, mg.buf, s + l, run, n - (l + run), block_len, FALSE>>)
        l2 == l + bm.r
        rest == Call("merge", <<bm.m, bm.buf, s + l2, n - l2 - (n % block_len), 0>>)
    IN IF l + run < n
       THEN IF mg.r THEN [m |-> mg.m, buf |-> mg.buf, dropped |-> TRUE, rests |-> 0]
            ELSE [m |-> rest.m, buf |-> rest.buf, dropped |-> rest.r, rests |-> 1]
       ELSE [m |-> pairs.m, buf |-> pairs.buf, dropped |-> TRUE, rests |-> 0]

\* block_merge_sort, one pass of `while run < n && min(n, 2 * run) / block_len <= keys`.
\* `dropped` is the result of the merge whose result the code drops, `rests`
\* whether that merge was called.
bms_buffered_pass(m, b, s, n, run, block_len, head_run, tail_start) ==
    LET pairs == While(LAMBDA v : v.l + 2 * run <= n,
                       LAMBDA v :
                           LET mg == Call("merge", <<v.m, v.buf, s + v.l, run, run>>)
                               bm == Call("block_merge", <<mg.m, mg.buf, s + v.l, run, run, block_len,
                                                 FALSE>>)
                           IN IF mg.r THEN [m |-> mg.m, buf |-> mg.buf, l |-> v.l + 2 * run]
                              ELSE [m |-> bm.m, buf |-> bm.buf, l |-> v.l + 2 * run],
                       [m |-> m, buf |-> b, l |-> IF run < head_run THEN tail_start ELSE 0])
        l == pairs.l
        mg == Call("merge", <<pairs.m, pairs.buf, s + l, run, n - (l + run)>>)
        bm == Call("block_merge", <<mg.m, mg.buf, s + l, run, n - (l + run), block_len, FALSE>>)
        l2 == l + bm.r
        rest == Call("merge", <<bm.m, bm.buf, s + l2, n - l2 - (n % block_len), n % block_len>>)
    IN IF l + run < n
       THEN IF mg.r THEN [m |-> mg.m, buf |-> mg.buf, dropped |-> TRUE, rests |-> 0]
            ELSE [m |-> rest.m, buf |-> rest.buf, dropped |-> rest.r, rests |-> 1]
       ELSE [m |-> pairs.m, buf |-> pairs.buf, dropped |-> TRUE, rests |-> 0]

\* block_merge_sort: `while min(n, 2 * run) / block_len > buf.len { block_len *= 2 }`
RECURSIVE bms_grow_block(_, _, _, _)
bms_grow_block(n, run, block_len, buf_len) ==
    IF Min(n, 2 * run) \div block_len > buf_len
    THEN bms_grow_block(n, run, 2 * block_len, buf_len)
    ELSE block_len

\* block_merge_sort, one pass of the second `while run < n`, block_len grown already.
bms_in_place_pass(m, b, s, n, run, block_len, head_run, tail_start) ==
    LET pairs == While(LAMBDA v : v.l + 2 * run <= n,
                       LAMBDA v :
                           LET bm == Call("block_merge", <<v.m, v.buf, s + v.l, run, run, block_len, TRUE>>)
                           IN [m |-> bm.m, buf |-> bm.buf, l |-> v.l + 2 * run],
                       [m |-> m, buf |-> b, l |-> IF run < head_run THEN tail_start ELSE 0])
        bm == Call("block_merge", <<pairs.m, pairs.buf, s + pairs.l, run, n - (pairs.l + run),
                          block_len, TRUE>>)
        last == IF pairs.l + run + block_len < n
                THEN [m |-> bm.m, buf |-> bm.buf, l |-> pairs.l + bm.r]
                ELSE pairs
    IN [m |-> Call("merge_in_place", <<last.m, s + last.l, n - last.l - (n % block_len), n % block_len>>),
        buf |-> last.buf]

\* sort, large regime: `while l > 0 { .. }`, collecting distinct keys between
\* merge passes.
sort_collect_keys(m, b, s, head, ideal) ==
    LET l0 == b.start - s
        m0 == Call("build_runs", <<ptr_sub_ok(m, b.start, s), s, s + head, l0>>)
    IN While(LAMBDA v : v.go /\ v.l > 0,
             LAMBDA v :
                 LET len == ((v.l - 1) % v.run) + 1
                     fk == Call("batch_find_keys", <<v.m, v.buf, s + v.l - len, s + v.l, ideal>>)
                     l == v.l - len
                     \* Merge pass
                     pass == While(LAMBDA w : w.i < l + 1,
                                   LAMBDA w :
                                       LET mg == Call("merge", <<w.m, w.buf, s + w.i - 2 * v.run,
                                                       v.run, v.run>>)
                                       IN [m |-> mg.m, buf |-> mg.buf, i |-> w.i + 2 * v.run],
                                   [m |-> fk.m, buf |-> fk.buf, i |-> 2 * v.run])
                     bs == Call("Buffer_sort", <<pass.m, pass.buf>>)
                 IN IF fk.buf.len = ideal
                    THEN [m |-> fk.m, buf |-> fk.buf, l |-> l, run |-> v.run, go |-> FALSE]
                    ELSE IF fk.buf.len >= v.run
                    THEN [m |-> bs.m, buf |-> bs.buf, l |-> l, run |-> 2 * v.run, go |-> TRUE]
                    ELSE [m |-> fk.m, buf |-> fk.buf, l |-> l, run |-> v.run, go |-> TRUE],
             [m |-> m0, buf |-> b, l |-> l0, run |-> MIN_RUN, go |-> TRUE])

\* sort, large regime: align the buffer to the right and snap the runs right of
\* tail_start to powers of two.
sort_snap_runs(m, b, s, n, head, l0, r0, run0) ==
    LET sh == Call("Buffer_shift", <<m, b, s + (n - b.len)>>)
        tail_start == (Max(l0 + run0, head) \div run0) * run0 - run0
        r == r0 - b.len
        lp == While(LAMBDA v : v.l < r,
                    LAMBDA v :
                        LET nd == Call("next_non_desc_run", <<v.m, s + v.l, r - v.l>>)
                            cur == nd.r
                            run == IF v.run > MIN_RUN /\ cur <= v.run \div 2
                                      /\ v.prev + cur <= v.run
                                   THEN v.run \div 2 ELSE v.run
                            frag == v.frag % run
                            mg == Call("merge", <<nd.m, v.buf, s + v.l - frag, frag,
                                        Min(cur, run - frag)>>)
                        IN [m |-> mg.m, buf |-> mg.buf, l |-> v.l + cur, run |-> run,
                            frag |-> frag + cur, prev |-> cur],
                    [m |-> sh.m, buf |-> sh.buf, l |-> tail_start, run |-> run0,
                     frag |-> 0, prev |-> run0])
        bs == Call("Buffer_sort", <<lp.m, lp.buf>>)
    IN [m |-> Call("build_runs", <<bs.m, s, s + r, n - bs.buf.len>>), buf |-> bs.buf,
        run |-> lp.run, tail_start |-> tail_start]

\* sort: the scan for the sorted head,
\*   head = next_sorted_run(s, n); head += next_non_desc_run(s + head - 1, ..) - 1
sort_scan(m, n) ==
    The({The({[m |-> nd.m, head |-> sr.r + nd.r - 1] :
              nd \in {Call("next_non_desc_run", <<sr.m, sr.r - 1, n - (sr.r - 1)>>)}}) :
         sr \in {Call("next_sorted_run", <<m, 0, n>>)}})

\* sort: `buf.shift(s.add(n - buf.len)); return sort_special(s, n, head, tail, less)`
sort_shift_special(m, b, n, head, tail) ==
    The({[m |-> Call("sort_special", <<sh.m, 0, n, head, tail>>), buf |-> sh.buf] :
         sh \in {Call("Buffer_shift", <<m, b, n - b.len>>)}})

\* sort, `if n < MIN_OPT_FIND_KEYS`, after the key collection fk that left the
\* head at `head`: shift the buffer to the right end and build the runs.
sort_small_runs(fk, n, head) ==
    The({[m |-> Call("build_runs", <<sh.m, 0, head, n - sh.buf.len>>), buf |-> sh.buf,
          head |-> head] :
         sh \in {Call("Buffer_shift", <<fk.m, fk.buf, n - fk.buf.len>>)}})

\* sort, `if n < MIN_OPT_FIND_KEYS`: the key collection.
sort_small_collect(m, b, n, head, ideal) ==
    The({IF fk.buf.len < ideal
         THEN The({sort_small_runs(bk, n, head - (bk.buf.len - fk.buf.len)) :
                   bk \in {Call("batch_find_keys", <<fk.m, fk.buf, 0, head, ideal>>)}})
         ELSE sort_small_runs(fk, n, head) :
         fk \in {Call("binary_find_keys", <<m, b, head, b.start, ideal>>)}})

Call(f, a) ==
    CASE f = "cycle_swap" -> cycle_swap(a[1], a[2], a[3], a[4])
      [] f = "insert_left" -> insert_left(a[1], a[2], a[3])
      [] f = "insert_right" -> insert_right(a[1], a[2], a[3])
      [] f = "reverse" -> reverse(a[1], a[2], a[3])
      [] f = "rotate" -> rotate(a[1], a[2], a[3], a[4])
      [] f = "search_left" -> search_left(a[1], a[2], a[3], a[4], a[5], a[6])
      [] f = "search_right" -> search_right(a[1], a[2], a[3], a[4], a[5], a[6])
      [] f = "block_swap_length" -> block_swap_length(a[1], a[2], a[3], a[4], a[5], a[6])
      [] f = "insert_sort_one" -> insert_sort_one(a[1], a[2], a[3])
      [] f = "insert_sort" -> insert_sort(a[1], a[2], a[3], a[4])
      [] f = "next_non_desc_run" -> next_non_desc_run(a[1], a[2], a[3])
      [] f = "next_sorted_run" -> next_sorted_run(a[1], a[2], a[3])
      [] f = "build_runs" -> build_runs(a[1], a[2], a[3], a[4])
      [] f = "Buffer_begin_merge" -> Buffer_begin_merge(a[1], a[2], a[3], a[4])
      [] f = "end_merge" -> end_merge(a[1], a[2], a[3], a[4])
      [] f = "merge_right" -> merge_right(a[1], a[2], a[3], a[4], a[5], a[6], a[7])
      [] f = "merge_left" -> merge_left(a[1], a[2], a[3], a[4], a[5], a[6], a[7])
      [] f = "binary_merge_right" -> binary_merge_right(a[1], a[2], a[3], a[4], a[5], a[6], a[7])
      [] f = "binary_merge_left" -> binary_merge_left(a[1], a[2], a[3], a[4], a[5], a[6], a[7])
      [] f = "merge_buffered" -> merge_buffered(a[1], a[2], a[3], a[4], a[5], a[6])
      [] f = "merge" -> merge(a[1], a[2], a[3], a[4], a[5])
      [] f = "merge_lazy" -> merge_lazy(a[1], a[2], a[3], a[4], a[5])
      [] f = "merge_in_place" -> merge_in_place(a[1], a[2], a[3], a[4])
      [] f = "Buffer_insert" -> Buffer_insert(a[1], a[2], a[3], a[4])
      [] f = "Buffer_shift" -> Buffer_shift(a[1], a[2], a[3])
      [] f = "Buffer_sort_mem" -> Buffer_sort_mem(a[1], a[2])
      [] f = "Buffer_sort" -> Buffer_sort(a[1], a[2])
      [] f = "binary_find_keys" -> binary_find_keys(a[1], a[2], a[3], a[4], a[5])
      [] f = "block_find_keys" -> block_find_keys(a[1], a[2], a[3], a[4], a[5])
      [] f = "batch_find_keys" -> batch_find_keys(a[1], a[2], a[3], a[4], a[5])
      [] f = "sorted_from_runs" -> sorted_from_runs(a[1], a[2], a[3], a[4], a[5], a[6])
      [] f = "Blocks_pop" -> Blocks_pop(a[1], a[2], a[3])
      [] f = "local_merge" -> local_merge(a[1], a[2], a[3], a[4], a[5], a[6])
      [] f = "local_merge_lazy" -> local_merge_lazy(a[1], a[2], a[3], a[4], a[5])
      [] f = "block_merge" -> block_merge(a[1], a[2], a[3], a[4], a[5], a[6], a[7])
      [] f = "merge_sort_in_place" -> merge_sort_in_place(a[1], a[2], a[3], a[4], a[5])
      [] f = "sort_special" -> sort_special(a[1], a[2], a[3], a[4], a[5])
      [] f = "bms_buffered_pass" -> bms_buffered_pass(a[1], a[2], a[3], a[4], a[5], a[6], a[7], a[8])
      [] f = "bms_in_place_pass" -> bms_in_place_pass(a[1], a[2], a[3], a[4], a[5], a[6], a[7], a[8])
      [] f = "sort_collect_keys" -> sort_collect_keys(a[1], a[2], a[3], a[4], a[5])
      [] f = "sort_snap_runs" -> sort_snap_runs(a[1], a[2], a[3], a[4], a[5], a[6], a[7], a[8])
      [] f = "sort_scan" -> sort_scan(a[1], a[2])
      [] f = "sort_shift_special" -> sort_shift_special(a[1], a[2], a[3], a[4], a[5])
      [] f = "sort_small_collect" -> sort_small_collect(a[1], a[2], a[3], a[4], a[5])

----------------------------------------------------------------------------
(* The sort as a state machine: lib.rs sort_common, dust.rs sort and        *)
(* block_merge_sort, one action per branch of their control flow.          *)

NoBuf == Buffer_new(0, 0, 0)

NoLoc == [n |-> 0, head |-> 0, block_len |-> 0, ideal |-> 0, run |-> 0, l |-> 0, r |-> 0,
          tail_start |-> 0, head_run |-> 0, keys |-> 0, bn |-> 0, bl |-> 0,
          in_place |-> 0, dropped |-> TRUE, rests |-> 0]

\* sort: `if n < MIN_SCAN { return insert_sort(s, 1, n, less) }`
SortTiny ==
    /\ pc = "sort"
    /\ Size(mem) < MIN_SCAN
    /\ mem' = Call("insert_sort", <<mem, 0, 1, Size(mem)>>)
    /\ pc' = "done"
    /\ UNCHANGED <<buf, loc, input, ret>>

\* sort: the scan for the sorted head.
SortScan ==
    /\ pc = "sort"
    /\ Size(mem) >= MIN_SCAN
    /\ \E sc \in {Call("sort_scan", <<mem, Size(mem)>>)} :
          /\ mem' = sc.m
          /\ loc' = [loc EXCEPT !.n = Size(mem), !.head = sc.head,
                                !.block_len = array_block_length(Size(mem) + 1)]
    /\ pc' = "scanned"
    /\ UNCHANGED <<buf, input, ret>>

\* sort: `if head == n { return }`
SortSorted ==
    /\ pc = "scanned"
    /\ loc.head = loc.n
    /\ pc' = "done"
    /\ UNCHANGED <<mem, buf, loc, input, ret>>

\* sort: `if n < MIN_MERGE_SORT { return insert_sort(s, head, n, less) }`
SortInsert ==
    /\ pc = "scanned"
    /\ loc.head # loc.n
    /\ loc.n < MIN_MERGE_SORT
    /\ mem' = Call("insert_sort", <<mem, 0, loc.head, loc.n>>)
    /\ pc' = "done"
    /\ UNCHANGED <<buf, loc, input, ret>>

\* sort: for small appended tails, sort immediately with rotations.
SortAppended ==
    /\ pc = "scanned"
    /\ loc.head # loc.n
    /\ loc.n >= MIN_MERGE_SORT
    /\ loc.head + loc.block_len * MAX_APPEND_BLOCKS >= loc.n
    /\ mem' = Call("sort_special", <<mem, 0, loc.n, loc.head, 0>>)
    /\ pc' = "done"
    /\ UNCHANGED <<buf, loc, input, ret>>

\* sort: `buf.binary_find_keys(s.add(head), s.add(n), 12, less)`
SortFindKeys ==
    /\ pc = "scanned"
    /\ loc.head # loc.n
    /\ loc.n >= MIN_MERGE_SORT
    /\ loc.head + loc.block_len * MAX_APPEND_BLOCKS < loc.n
    /\ \E fk \in {Call("binary_find_keys",
                         <<mem, Buffer_new(loc.n, 0, 0), loc.head, loc.n, 12>>)} :
          mem' = fk.m /\ buf' = fk.buf
    /\ pc' = "keys"
    /\ UNCHANGED <<loc, input, ret>>

\* sort: for many similar items excluding head, sort immediately with rotations.
SortFewDistinct ==
    /\ pc = "keys"
    /\ buf.len < MIN_DISTINCT
    /\ \E sp \in {Call("sort_shift_special",
                         <<mem, buf, loc.n, loc.head, loc.n - loc.head>>)} :
          mem' = sp.m /\ buf' = sp.buf
    /\ pc' = "done"
    /\ UNCHANGED <<loc, input, ret>>

\* sort: "combine both cases above".
SortCombined ==
    /\ pc = "keys"
    /\ buf.len >= MIN_DISTINCT
    /\ buf.start <= loc.head + loc.block_len * MAX_APPEND_BLOCKS
    /\ \E sp \in {Call("sort_shift_special",
                         <<ptr_sub_ok(mem, loc.n, buf.start), buf, loc.n, loc.head,
                           loc.n - buf.start>>)} :
          mem' = sp.m /\ buf' = sp.buf
    /\ pc' = "done"
    /\ UNCHANGED <<loc, input, ret>>

Ideal == loc.block_len + (loc.n + 1) \div loc.block_len - 2

\* sort, `if n < MIN_OPT_FIND_KEYS`: collect the keys, build the runs.
SortSmallCollect ==
    /\ pc = "keys"
    /\ buf.len >= MIN_DISTINCT
    /\ buf.start > loc.head + loc.block_len * MAX_APPEND_BLOCKS
    /\ loc.n < MIN_OPT_FIND_KEYS
    /\ \E ck \in {Call("sort_small_collect", <<mem, buf, loc.n, loc.head, Ideal>>)} :
          /\ mem' = ck.m
          /\ buf' = ck.buf
          /\ loc' = [loc EXCEPT !.ideal = Ideal, !.head = ck.head, !.head_run = MIN_RUN,
                                !.tail_start = 0]
    /\ pc' = "bms"
    /\ UNCHANGED <<input, ret>>

\* sort, large regime: collect distinct keys.
SortLargeCollect ==
    /\ pc = "keys"
    /\ buf.len >= MIN_DISTINCT
    /\ buf.start > loc.head + loc.block_len * MAX_APPEND_BLOCKS
    /\ loc.n >= MIN_OPT_FIND_KEYS
    /\ \E ck \in {Call("sort_collect_keys", <<mem, buf, 0, loc.head, Ideal>>)} :
          /\ mem' = ck.m
          /\ buf' = ck.buf
          /\ loc' = [loc EXCEPT !.ideal = Ideal, !.l = ck.l, !.r = buf.start + buf.len,
                                !.run = ck.run]
    /\ pc' = "snap"
    /\ UNCHANGED <<input, ret>>

\* sort, large regime: snap blocks to powers of two.
SortLargeSnap ==
    /\ pc = "snap"
    /\ \E sn \in {Call("sort_snap_runs",
                         <<mem, buf, 0, loc.n, loc.head, loc.l, loc.r, loc.run>>)} :
          /\ mem' = sn.m
          /\ buf' = sn.buf
          /\ loc' = [loc EXCEPT !.head_run = sn.run, !.tail_start = sn.tail_start]
    /\ pc' = "bms"
    /\ UNCHANGED <<input, ret>>

\* block_merge_sort: set up the buffer layout.
BmsSetup ==
    /\ pc = "bms"
    /\ LET block_len == buffer_block_length(buf.len)
       IN /\ loc' = [loc EXCEPT !.bl = block_len, !.keys = buf.len - block_len + 1,
                                !.run = MIN_RUN, !.bn = buf.start]
          /\ buf' = [buf EXCEPT !.len = block_len - 1]
    /\ pc' = "buffered"
    /\ UNCHANGED <<mem, input, ret>>

BmsBuffered == loc.run < loc.bn /\ Min(loc.bn, 2 * loc.run) \div loc.bl <= loc.keys

\* block_merge_sort: one pass of block merging with merge buffer.
BmsBufferedPass ==
    /\ pc = "buffered"
    /\ BmsBuffered
    /\ \E ps \in {Call("bms_buffered_pass",
                         <<mem, buf, 0, loc.bn, loc.run, loc.bl, loc.head_run,
                           loc.tail_start>>)} :
          /\ mem' = ps.m
          /\ buf' = ps.buf
          /\ loc' = [loc EXCEPT !.run = 2 * loc.run, !.dropped = loc.dropped /\ ps.dropped,
                                !.rests = loc.rests + ps.rests]
    /\ UNCHANGED <<pc, input, ret>>

\* block_merge_sort: `buf.sort(less); buf.len += keys;`
BmsBufferSort ==
    /\ pc = "buffered"
    /\ ~BmsBuffered
    /\ \E bs \in {Call("Buffer_sort", <<mem, buf>>)} :
          /\ mem' = bs.m
          /\ buf' = [bs.buf EXCEPT !.len = bs.buf.len + loc.keys]
    /\ pc' = "inplace"
    /\ UNCHANGED <<loc, input, ret>>

\* block_merge_sort: one pass of block merging without merge buffer.
BmsInPlacePass ==
    /\ pc = "inplace"
    /\ loc.run < loc.bn
    /\ \E block_len \in {bms_grow_block(loc.bn, loc.run, loc.bl, buf.len)} :
       \E ps \in {Call("bms_in_place_pass",
                         <<mem, buf, 0, loc.bn, loc.run, block_len, loc.head_run,
                           loc.tail_start>>)} :
          /\ mem' = ps.m
          /\ buf' = ps.buf
          /\ loc' = [loc EXCEPT !.run = 2 * loc.run, !.bl = block_len,
                                !.in_place = @ + 1]
    /\ UNCHANGED <<pc, input, ret>>

\* sort: `merge_in_place(s, n - buf.len, buf.len, less)` after block_merge_sort.
SortFold ==
    /\ pc = "inplace"
    /\ loc.run >= loc.bn
    /\ mem' = Call("merge_in_place", <<mem, 0, loc.n - buf.len, buf.len>>)
    /\ pc' = "done"
    /\ UNCHANGED <<buf, loc, input, ret>>

----------------------------------------------------------------------------
(* Inputs *)

\* The elements of a sequence of keys: each key tagged with its index.
Tag(keys) == [i \in 1..Len(keys) |-> keys[i] * IdBase + (i - 1)]

\* A scrambled key in 0..kmax - 1 for index i.
Scramble(i, seed, kmax) ==
    (((i % 1009) * (i % 1009) * 7 + (i % 1009) * 131 + seed * 977) % 1009) % kmax

\* A sequence of n keys: a head of `head` keys, non-descending or (with desc)
\* non-ascending, then scrambled keys, the last `dup` of them equal.
GenKeys(c) ==
    [i \in 1..c.n |->
        IF i <= c.head
        THEN ((IF c.desc THEN c.head - i ELSE i - 1) * c.kmax) \div c.head
        ELSE IF i > c.n - c.dup THEN 0
        ELSE Scramble(i, c.seed, c.kmax)]

MaxTiny == 5
TinyKeys == 3

\* Every sequence of up to MaxTiny keys below TinyKeys.
TinyInputs == UNION {[1..n -> 0..(TinyKeys - 1)] : n \in 0..MaxTiny}

Case(n, head, kmax, seed, dup, desc) ==
    [n |-> n, head |-> head, kmax |-> kmax, seed |-> seed, dup |-> dup, desc |-> desc]

\* Inputs for every path of sort: the lengths around MIN_SCAN and
\* MIN_MERGE_SORT, a sorted and a descending sequence, an appended tail, few
\* distinct keys, both at once, the small regime with keys to spare and with
\* too few, and the large regime.
Cases ==
    {Case(7, 2, 4, 1, 0, FALSE), Case(8, 2, 4, 1, 0, FALSE), Case(9, 3, 2, 2, 0, TRUE),
     Case(63, 5, 20, 2, 0, FALSE), Case(64, 5, 20, 2, 0, FALSE), Case(65, 9, 3, 3, 0, TRUE),
     Case(70, 70, 70, 1, 0, FALSE), Case(70, 70, 70, 1, 0, TRUE),
     Case(100, 60, 30, 1, 0, FALSE),
     Case(200, 3, 5, 1, 0, FALSE),
     Case(200, 100, 50, 1, 60, FALSE),
     Case(300, 3, 300, 1, 0, FALSE),
     Case(300, 3, 14, 2, 0, FALSE),
     Case(116, 3, 12, 1, 0, FALSE),
     Case(4096, 3800, 200, 1, 0, FALSE)}

\* n keys that rise with the index, each out of place by less than w: runs
\* that overlap by a few elements, the case of the binary merges.
NearKeys(n, seed, w) == [i \in 1..n |-> i + Scramble(i, seed, w)]

Inputs ==
    {Tag(k) : k \in TinyInputs} \cup {Tag(GenKeys(c)) : c \in Cases}
        \cup {Tag(NearKeys(300, 1, 4)), Tag(NearKeys(500, 2, 3))}

Init ==
    /\ input \in Inputs
    /\ mem = NewMem(input)
    /\ buf = NoBuf
    /\ pc = "sort"
    /\ loc = NoLoc
    /\ ret = TRUE

Next ==
    \/ SortTiny
    \/ SortScan
    \/ SortSorted
    \/ SortInsert
    \/ SortAppended
    \/ SortFindKeys
    \/ SortFewDistinct
    \/ SortCombined
    \/ SortSmallCollect
    \/ SortLargeCollect
    \/ SortLargeSnap
    \/ BmsSetup
    \/ BmsBufferedPass
    \/ BmsBufferSort
    \/ BmsInPlacePass
    \/ SortFold

Spec == Init /\ [][Next]_vars

----------------------------------------------------------------------------
(* The functions on their own: one call of one function on a short         *)
(* sequence, with arguments that meet the function's preconditions.        *)

UnitLen == 6
UnitKeys == 2

\* Every sequence of up to UnitLen keys below UnitKeys.
UnitInputs == UNION {[1..n -> 0..(UnitKeys - 1)] : n \in 0..UnitLen}

\* input[p..p + cnt) is non-descending.
SortedRun(a, p, cnt) == \A i \in (p + 1)..(p + cnt - 1) : ~less(a[i + 1], a[i])

\* A buffer holds keys that are pairwise distinct.
DistinctKeys(a, p, cnt) ==
    \A i \in (p + 1)..(p + cnt) : \A j \in (i + 1)..(p + cnt) : Key(a[i]) # Key(a[j])

\* A buffer past its unsorted prefix: ascending, and above the whole prefix.
SortedPast(a, b) ==
    \A i \in (b.start + 1)..(b.start + b.len) :
        \A j \in (Max(i, b.start + b.unsorted) + 1)..(b.start + b.len) : less(a[i], a[j])

\* The buffers that lie at the right end of the sequence.
UnitBuffers ==
    {Buffer_new(Len(input) - len, len, unsorted) :
         len \in {l \in 0..Len(input) : DistinctKeys(input, Len(input) - l, l)},
         unsorted \in 0..Len(input)}

UnitInit ==
    /\ input \in {Tag(k) : k \in UnitInputs}
    /\ mem = NewMem(input)
    /\ buf = NoBuf
    /\ pc = "unit"
    /\ loc = NoLoc
    /\ ret = TRUE

\* cycle_swap(a, b, cnt) on two regions that do not overlap.
UnitCycleSwap ==
    /\ pc = "unit"
    /\ \E cnt \in 1..Len(input) : \E a, b \in 0..(Len(input) - cnt) :
          /\ a + cnt <= b \/ b + cnt <= a
          /\ mem' = Call("cycle_swap", <<mem, a, b, cnt>>)
          /\ loc' = [a |-> a, b |-> b, cnt |-> cnt]
    /\ pc' = "cycle_swap"
    /\ UNCHANGED <<buf, input, ret>>

\* buf.begin_merge(dst, cnt), dst left of the buffer.
UnitBeginMerge ==
    /\ pc = "unit"
    /\ \E b \in UnitBuffers : \E cnt \in 0..b.len : \E dst \in 0..(b.start - cnt) :
          /\ b.unsorted <= b.len
          /\ \E bm \in {Call("Buffer_begin_merge", <<mem, b, dst, cnt>>)} :
                mem' = bm.m /\ buf' = bm.buf
          /\ loc' = [buf |-> b, dst |-> dst, cnt |-> cnt]
    /\ pc' = "begin_merge"
    /\ UNCHANGED <<input, ret>>

\* buf.sort(less)
UnitBufferSort ==
    /\ pc = "unit"
    /\ \E b \in UnitBuffers :
          /\ b.unsorted <= b.len
          /\ SortedPast(input, b)
          /\ \E bs \in {Call("Buffer_sort", <<mem, b>>)} : mem' = bs.m /\ buf' = bs.buf
          /\ loc' = [buf |-> b]
    /\ pc' = "Buffer_sort"
    /\ UNCHANGED <<input, ret>>

\* merge(buf, s, n1, n2, less) on two adjacent sorted runs, the buffer sorted.
UnitMerge ==
    /\ pc = "unit"
    /\ \E b \in UnitBuffers : \E n1 \in 0..b.start :
          /\ b.unsorted = 0
          /\ SortedPast(input, b)
          /\ SortedRun(input, 0, n1)
          /\ SortedRun(input, n1, b.start - n1)
          /\ \E mg \in {Call("merge", <<mem, b, 0, n1, b.start - n1>>)} :
                mem' = mg.m /\ buf' = mg.buf /\ ret' = mg.r
          /\ loc' = [buf |-> b, n1 |-> n1, n2 |-> b.start - n1]
    /\ pc' = "merge"
    /\ UNCHANGED input

UnitNext ==
    \/ UnitCycleSwap
    \/ UnitBeginMerge
    \/ UnitBufferSort
    \/ UnitMerge

UnitSpec == UnitInit /\ [][UnitNext]_vars

----------------------------------------------------------------------------
(* next_sorted_run and insert_sort on their own, one call on a part of a   *)
(* short sequence.                                                         *)

\* Every sequence of up to UnitLen - 1 keys up to UnitKeys: three keys, for the
\* runs that descend twice.
RunInputs == UNION {[1..n -> 0..UnitKeys] : n \in 0..(UnitLen - 1)}

RunInit ==
    /\ input \in {Tag(k) : k \in RunInputs}
    /\ mem = NewMem(input)
    /\ buf = NoBuf
    /\ pc = "run"
    /\ loc = NoLoc
    /\ ret = TRUE

\* next_sorted_run(s, n, less) on any part of the sequence.
RunNextSortedRun ==
    /\ pc = "run"
    /\ \E n \in 0..Len(input) : \E s \in 0..(Len(input) - n) :
          \E nr \in {Call("next_sorted_run", <<mem, s, n>>)} :
              /\ mem' = nr.m
              /\ loc' = [s |-> s, n |-> n, r |-> nr.r]
    /\ pc' = "next_sorted_run"
    /\ UNCHANGED <<buf, input, ret>>

\* insert_sort(s, i, n, less) on any part of the sequence whose first i elements
\* are sorted, i >= 1.
RunInsertSort ==
    /\ pc = "run"
    /\ \E i \in 1..Len(input) : \E s \in 0..(Len(input) - i) : \E n \in 0..(Len(input) - s) :
          /\ SortedRun(input, s, i)
          /\ mem' = Call("insert_sort", <<mem, s, i, n>>)
          /\ loc' = [s |-> s, i |-> i, n |-> n]
    /\ pc' = "insert_sort"
    /\ UNCHANGED <<buf, input, ret>>

RunNext ==
    \/ RunNextSortedRun
    \/ RunInsertSort

RunSpec == RunInit /\ [][RunNext]_vars

----------------------------------------------------------------------------
(* merge_in_place on its own, one action per round of its loop.  loc holds *)
(* the loop's s, n1, n2 and log_step, and the lengths n10, n20 of the call. *)

\* Two sorted runs of n1 and n2 keys: the left one spreads k1 keys from 0, the
\* right one k2 keys from off.
Runs(n1, n2, k1, k2, off) ==
    [i \in 1..(n1 + n2) |->
        IF i <= n1 THEN ((i - 1) * k1) \div n1 ELSE off + ((i - n1 - 1) * k2) \div n2]

\* Runs long enough for the loop (n1 | n2 >= MIN_FAST_LAZY), of like and of
\* unlike lengths, interleaved, nested and overlapping at the ends.
LongRuns ==
    {<<512, 64, 64, 64, 0>>, <<512, 64, 512, 64, 200>>, <<512, 40, 100, 40, 30>>,
     <<64, 512, 64, 64, 0>>, <<40, 512, 40, 300, 0>>, <<512, 512, 300, 300, 0>>,
     <<512, 512, 512, 512, 100>>, <<600, 300, 600, 300, 450>>, <<300, 600, 300, 600, 150>>,
     <<520, 100, 520, 10, 200>>, <<512, 16, 512, 16, 500>>, <<16, 512, 16, 512, 0>>,
     <<700, 700, 20, 20, 0>>, <<512, 8, 512, 8, 0>>, <<512, 1, 512, 1, 100>>,
     <<520, 200, 50, 300, 10>>, <<256, 768, 256, 256, 128>>, <<768, 256, 768, 700, 5>>}

\* The calls: every split of a short sequence into two sorted runs, and the
\* long runs.
MipCalls ==
    {d \in {[a |-> Tag(k), n1 |-> n1] : k \in UnitInputs, n1 \in 0..UnitLen} :
         d.n1 <= Len(d.a)}
        \cup {[a |-> Tag(Runs(c[1], c[2], c[3], c[4], c[5])), n1 |-> c[1]] : c \in LongRuns}

MipInit ==
    /\ \E c \in {d \in MipCalls : SortedRun(d.a, 0, d.n1)
                                      /\ SortedRun(d.a, d.n1, Len(d.a) - d.n1)} :
          /\ input = c.a
          /\ loc = [s |-> 0, n1 |-> c.n1, n2 |-> Len(c.a) - c.n1, log_step |-> 0,
                    n10 |-> c.n1, n20 |-> Len(c.a) - c.n1, rounds |-> 0]
    /\ mem = NewMem(input)
    /\ buf = NoBuf
    /\ pc = "merge_in_place"
    /\ ret = TRUE

\* merge_in_place: the returns before the loop, and the hand-over to merge_lazy.
MipShort ==
    /\ pc = "merge_in_place"
    /\ merge_in_place_short(mem, 0, loc.n10, loc.n20)
    /\ mem' = Call("merge_in_place", <<mem, 0, loc.n10, loc.n20>>)
    /\ pc' = "returned"
    /\ UNCHANGED <<buf, loc, input, ret>>

\* merge_in_place: trim the right run and enter the loop.
MipTrim ==
    /\ pc = "merge_in_place"
    /\ ~merge_in_place_short(mem, 0, loc.n10, loc.n20)
    /\ \E v \in {merge_in_place_trim(mem, 0, loc.n10, loc.n20)} :
          /\ mem' = v.m
          /\ loc' = [loc EXCEPT !.n2 = v.n2, !.log_step = v.log_step]
    /\ pc' = "loop"
    /\ UNCHANGED <<buf, input, ret>>

\* merge_in_place: the head of a round of the loop.
MipTest ==
    /\ pc = "loop"
    /\ \E v \in {merge_in_place_test([m |-> mem, s |-> loc.s, n1 |-> loc.n1, n2 |-> loc.n2,
                                       log_step |-> loc.log_step, go |-> TRUE])} :
          /\ mem' = v.m
          /\ loc' = [loc EXCEPT !.log_step = v.log_step]
          /\ pc' = IF v.go THEN "swap" ELSE "returned"
    /\ UNCHANGED <<buf, input, ret>>

\* merge_in_place: the block swap and the lazy merge that end a round.
MipSwap ==
    /\ pc = "swap"
    /\ \E v \in {merge_in_place_swap([m |-> mem, s |-> loc.s, n1 |-> loc.n1, n2 |-> loc.n2,
                                       log_step |-> loc.log_step, go |-> TRUE],
                                      loc.log_step)} :
          /\ mem' = v.m
          /\ loc' = [loc EXCEPT !.s = v.s, !.n1 = v.n1, !.n2 = v.n2, !.rounds = @ + 1]
    /\ pc' = "loop"
    /\ UNCHANGED <<buf, input, ret>>

MipNext ==
    \/ MipShort
    \/ MipTrim
    \/ MipTest
    \/ MipSwap

\* A step of the running call: on to its next position.
MipRuns ==
    /\ pc # "returned"
    /\ pc' \in {"loop", "swap", "returned"}
    /\ pc' # pc

\* The call runs on until it returns: a call that has not returned takes its
\* next step.
MipSpec == MipInit /\ [][MipNext]_vars /\ WF_pc(MipRuns)

----------------------------------------------------------------------------
(* Blocks::sorted_from_runs on its own.  The sequence is the keys, one per  *)
(* block and ascending, then the two runs, then what is left of the right  *)
(* run past its last whole block.                                          *)

\* The non-descending sequences of c keys up to UnitKeys: the heads of a run.
Heads(c) == {h \in [1..c -> 0..UnitKeys] : \A i \in 1..(c - 1) : h[i] <= h[i + 1]}

\* A sorted run of blocks of length bl with heads h: a block's last element is
\* its head, the others are as small as the run allows.
BlockRun(h, bl) ==
    [j \in 1..(Len(h) * bl) |->
        IF j % bl = 0 THEN h[j \div bl]
        ELSE IF j <= bl THEN 0 ELSE h[(j - 1) \div bl]]

\* The calls: runs of up to UnitLen \div 2 blocks of one or two elements.
BlockCalls ==
    {[a |-> Tag([i \in 1..(Len(h1) + Len(h2)) |-> i - 1] \o BlockRun(h1, bl)
                \o BlockRun(h2, bl) \o [i \in 1..rem |-> UnitKeys]),
      c1 |-> Len(h1), c2 |-> Len(h2), block_len |-> bl, rem |-> rem] :
        h1 \in UNION {Heads(c) : c \in 0..(UnitLen \div 2)},
        h2 \in UNION {Heads(c) : c \in 0..(UnitLen \div 2)},
        bl \in 1..2, rem \in 0..1}

BlocksInit ==
    /\ \E c \in {d \in BlockCalls : d.rem < d.block_len} :
          /\ input = c.a
          /\ loc = [s |-> c.c1 + c.c2, keys |-> 0, n1 |-> c.c1 * c.block_len,
                    n2 |-> c.c2 * c.block_len + c.rem, block_len |-> c.block_len,
                    c1 |-> c.c1, count |-> c.c1 + c.c2, mid |-> 0]
    /\ mem = NewMem(input)
    /\ buf = NoBuf
    /\ pc = "blocks"
    /\ ret = TRUE

\* Blocks::sorted_from_runs(s, keys, n1, n2, block_len, less)
BlocksSortedFromRuns ==
    /\ pc = "blocks"
    /\ \E sr \in {Call("sorted_from_runs",
                        <<mem, loc.s, loc.keys, loc.n1, loc.n2, loc.block_len>>)} :
          /\ mem' = sr.m
          /\ loc' = [loc EXCEPT !.mid = sr.blocks.mid]
    /\ pc' = "sorted_from_runs"
    /\ UNCHANGED <<buf, input, ret>>

BlocksNext == BlocksSortedFromRuns

BlocksSpec == BlocksInit /\ [][BlocksNext]_vars

----------------------------------------------------------------------------
(* merge on its own: two adjacent sorted runs and, behind them, the buffer, *)
(* ascending past an unsorted prefix of smaller elements.                  *)

\* Runs long enough for the binary merges, as <<n1, n2, k1, k2, off>>.
LongMerges ==
    {<<12, 3, 4, 2, 1>>, <<3, 12, 2, 4, 0>>, <<11, 11, 6, 6, 0>>, <<20, 2, 5, 2, 2>>,
     <<2, 20, 2, 5, 0>>, <<10, 10, 3, 3, 1>>}

\* A buffer of len elements with distinct keys, its first `unsorted` the
\* smallest, turned round by one place.
BufferKeys(len, unsorted) ==
    [i \in 1..len |-> IF i > unsorted THEN i - 1 ELSE i % unsorted]

MergeCalls ==
    {[a |-> Tag(c[1] \o c[2] \o BufferKeys(c[3], c[4])), n1 |-> Len(c[1]), n2 |-> Len(c[2]),
      buf |-> Buffer_new(Len(c[1]) + Len(c[2]), c[3], c[4])] :
        c \in {d \in (UNION {Heads(k) : k \in 0..(UnitLen - 3)})
                        \X (UNION {Heads(k) : k \in 0..(UnitLen - 3)})
                        \X (1..3) \X (0..3) : d[4] <= d[3]}
              \cup {<<[i \in 1..r[1] |-> Runs(r[1], r[2], r[3], r[4], r[5])[i]],
                      [i \in 1..r[2] |-> Runs(r[1], r[2], r[3], r[4], r[5])[r[1] + i]],
                      len, 0>> : r \in LongMerges, len \in 1..3}}

MergeInit ==
    /\ \E c \in MergeCalls :
          /\ input = c.a
          /\ buf = c.buf
          /\ loc = [buf |-> c.buf, n1 |-> c.n1, n2 |-> c.n2]
    /\ mem = NewMem(input)
    /\ pc = "call"
    /\ ret = TRUE

\* merge(buf, s, n1, n2, less)
MergeCall ==
    /\ pc = "call"
    /\ \E mg \in {Call("merge", <<mem, buf, 0, loc.n1, loc.n2>>)} :
          mem' = mg.m /\ buf' = mg.buf /\ ret' = mg.r
    /\ pc' = "merge"
    /\ UNCHANGED <<loc, input>>

MergeNext == MergeCall

MergeSpec == MergeInit /\ [][MergeNext]_vars

----------------------------------------------------------------------------
(* The searches of util.rs and array_block_length on their own.  A search   *)
(* is over s..s + n with p elements less than *val, then q - p equal to it, *)
(* then n - q it is less than; *val sits behind them.                      *)

MaxSearch == 12
MaxBlockN == 300

SearchCalls ==
    {c \in [f : {"search"}, n : 0..MaxSearch, p : 0..MaxSearch, q : 0..MaxSearch] :
         c.p <= c.q /\ c.q <= c.n}

\* array_block_length(n): every n up to MaxBlockN, and the n next to the powers
\* of two above.
BlockLengthCalls ==
    [f : {"array_block_length"},
     n : 1..MaxBlockN \cup UNION {{2 ^ e - 1, 2 ^ e, 2 ^ e + 1} : e \in 9..26},
     p : {0}, q : {0}]

NumInit ==
    /\ \E c \in SearchCalls \cup BlockLengthCalls :
          /\ loc = [f |-> c.f, n |-> c.n, p |-> c.p, q |-> c.q, r |-> 0, asked |-> <<>>,
                    left |-> 0, right |-> 0]
          /\ input = IF c.f = "search"
                     THEN Tag([i \in 1..(c.n + 1) |->
                                  IF i <= c.p THEN 0 ELSE IF i <= c.q \/ i = c.n + 1 THEN 1
                                  ELSE 2])
                     ELSE <<>>
    /\ mem = NewMem(input)
    /\ buf = NoBuf
    /\ pc = "num"
    /\ ret = TRUE

\* lower_bound(n, |x| less(s[x], *val)), search_left and search_right.
NumSearch ==
    /\ pc = "num"
    /\ loc.f = "search"
    /\ \E lb \in {lower_bound(loc.n, LAMBDA x : Lt(mem, x, loc.n, FALSE))} :
          \E sl \in {search_left(mem, 0, loc.n, loc.n, FALSE, NoHole)} :
              \E sr \in {search_right(sl.m, 0, loc.n, loc.n, FALSE, NoHole)} :
                  /\ mem' = sr.m
                  /\ loc' = [loc EXCEPT !.r = lb.i, !.asked = lb.asked, !.left = sl.r,
                                        !.right = sr.r]
    /\ pc' = "search"
    /\ UNCHANGED <<buf, input, ret>>

\* array_block_length(n)
NumArrayBlockLength ==
    /\ pc = "num"
    /\ loc.f = "array_block_length"
    /\ loc' = [loc EXCEPT !.r = array_block_length(loc.n)]
    /\ pc' = "array_block_length"
    /\ UNCHANGED <<mem, buf, input, ret>>

NumNext ==
    \/ NumSearch
    \/ NumArrayBlockLength

NumSpec == NumInit /\ [][NumNext]_vars

----------------------------------------------------------------------------
(* Properties *)

\* sort has returned.
Done == pc = "done" /\ ~mem.panic

IsSorted(a) == \A i \in 1..(Len(a) - 1) : ~less(a[i + 1], a[i])

\* Equal elements are in the order of their original indices.
IsStable(a) ==
    \A i \in 1..Len(a) : \A j \in (i + 1)..Len(a) : Key(a[i]) = Key(a[j]) => Id(a[i]) < Id(a[j])

\* a[p..p + cnt) holds the elements of b[q..q + cnt), in some order.
SameElements(a, p, b, q, cnt) ==
    {a[i] : i \in (p + 1)..(p + cnt)} = {b[i] : i \in (q + 1)..(q + cnt)}

\* a and b agree outside a[p..p + cnt) and a[q..q + cnt).
SameOutside(a, b, p, q, cnt) ==
    /\ Len(a) = Len(b)
    /\ \A i \in 1..Len(a) :
          i \in (p + 1)..(p + cnt) \/ i \in (q + 1)..(q + cnt) \/ a[i] = b[i]

\* C1: when sort returns, no adjacent pair (a, b) of the output has less(b, a).
SortOrder == Done => IsSorted(mem.a)

\* C2: when sort returns, the sequence holds exactly the elements of the input,
\* each once.
SortPermutation == Done => IsPerm(mem.a, Range(input))

\* C2, its case: sort returned after it collected a buffer and moved elements.
SortPermutationCase == Done /\ buf.len >= MIN_DISTINCT /\ mem.a # input

\* C3: when sort returns, elements that compare equal are in their original
\* order.
SortStable == Done => IsStable(mem.a)

\* C4: at every call of the comparator so far, the sequence with the outstanding
\* Hole dropped was a permutation of the input.
HoleSafety == ~mem.hbad

\* C4, its case: insert_sort built the runs and a pass of buffered merges, with
\* their holes, is over.
HoleSafetyCase == pc = "buffered" /\ loc.run > MIN_RUN /\ mem.cmp > 0

\* C5: no read or write so far addressed a position outside [0, n).
NoOutOfBounds == ~mem.oob

\* C5, its case: sort returned from the large regime, every phase run.
NoOutOfBoundsCase == Done /\ Len(input) >= MIN_OPT_FIND_KEYS /\ loc.bl > 0

\* C6: the comparator was never handed the same position twice.
NeverSelfCompare == ~mem.self

\* C6, its case: a pass of block merging without merge buffer, which sorts the
\* blocks and pops their keys, is over.
NeverSelfCompareCase == pc = "inplace" /\ loc.in_place > 0

\* C7: a merge that returned false left the sequence and the buffer as they
\* were on entry.
MergeFalseUntouched == pc = "merge" /\ ~ret => mem.a = input /\ buf = loc.buf

\* C7, its case: merge returned false.
MergeFalseCase == pc = "merge" /\ ~ret

\* C8 as claimed: after cycle_swap(a, b, cnt), b[i] = a_old[i] for every i in
\* [0, cnt) and region a holds a permutation of b_old.
CycleSwapAsClaimed ==
    pc = "cycle_swap" =>
        /\ \A i \in 1..loc.cnt : mem.a[loc.b + i] = input[loc.a + i]
        /\ SameElements(mem.a, loc.a, input, loc.b, loc.cnt)

\* C8, amended: after cycle_swap(a, b, cnt), a[i] = b_old[i] for every i in
\* [0, cnt), and region b holds a permutation of a_old.
CycleSwapExchange ==
    pc = "cycle_swap" =>
        /\ \A i \in 1..loc.cnt : mem.a[loc.a + i] = input[loc.b + i]
        /\ SameElements(mem.a, loc.b, input, loc.a, loc.cnt)

\* C8, its case: cycle_swap exchanged regions of two elements or more.
CycleSwapCase == pc = "cycle_swap" /\ loc.cnt >= 2 /\ ~mem.ub

\* C9: Buffer::sort returns with unsorted = 0.
BufferSortResets == pc = "Buffer_sort" => buf.unsorted = 0

\* C10: begin_merge(dst, cnt) with cnt = 0 panics and leaves unsorted, the
\* buffer and the sequence alone; with cnt > 0 it raises unsorted to
\* max(unsorted, cnt) and exchanges the first cnt buffer elements with
\* dst[0..cnt).
BeginMerge ==
    pc = "begin_merge" =>
        IF loc.cnt = 0
        THEN mem.panic /\ mem.a = input /\ buf = loc.buf
        ELSE /\ ~mem.panic
             /\ buf = [loc.buf EXCEPT !.unsorted = Max(loc.buf.unsorted, loc.cnt)]
             /\ SameElements(mem.a, buf.start, input, loc.dst, loc.cnt)
             /\ SameElements(mem.a, loc.dst, input, buf.start, loc.cnt)
             /\ SameOutside(mem.a, input, buf.start, loc.dst, loc.cnt)

\* C10, its case: begin_merge was called with cnt = 0.
BeginMergeCase == pc = "begin_merge" /\ loc.cnt = 0

\* a is the stable merge of the two sorted runs of b: the elements of b in
\* ascending order, equal elements by original index.
IsStableMerge(a, b) ==
    /\ IsPerm(a, Range(b))
    /\ IsSorted(a)
    /\ IsStable(a)

\* A round of merge_in_place's loop that goes on to the next: the new
\* n1 + n2 is the old max(n1, n2), and less than the old n1 + n2.
MipShrinks ==
    pc = "swap" /\ pc' = "loop" =>
        /\ loc'.n1 + loc'.n2 = Max(loc.n1, loc.n2)
        /\ loc'.n1 + loc'.n2 < loc.n1 + loc.n2

\* C11: merge_in_place on two adjacent sorted runs returns; every round of its
\* loop leaves n1 + n2 at the max(n1, n2) of before, a smaller sum; and on
\* return the sequence is the stable merge of the two runs.
MergeInPlace ==
    /\ <>(pc = "returned")
    /\ [][MipShrinks]_vars
    /\ [](pc = "returned" => IsStableMerge(mem.a, input))

\* C11, its case: merge_in_place returned after two rounds or more of its
\* loop, the runs out of order at sizes from MIN_FAST_LAZY.
MergeInPlaceCase ==
    /\ pc = "returned"
    /\ loc.rounds >= 2
    /\ BitOr(loc.n10, loc.n20) >= MIN_FAST_LAZY
    /\ mem.a # input
\* a[p..p + cnt) holds its equal elements in the order of their original
\* indices.
StableRun(a, p, cnt) ==
    \A i \in (p + 1)..(p + cnt) : \A j \in (i + 1)..(p + cnt) :
        Key(a[i]) = Key(a[j]) => Id(a[i]) < Id(a[j])

\* C12: next_sorted_run(s, n) returns r in 1..n, and 0 only for n = 0; s[0..r)
\* is then non-descending and holds what it held, equal elements in their
\* original order, and everything from s[r] on is as it was.
NextSortedRun ==
    pc = "next_sorted_run" =>
        /\ loc.r \in (IF loc.n = 0 THEN 0 ELSE 1)..loc.n
        /\ SortedRun(mem.a, loc.s, loc.r)
        /\ SameElements(mem.a, loc.s, input, loc.s, loc.r)
        /\ StableRun(mem.a, loc.s, loc.r)
        /\ SameOutside(mem.a, input, loc.s, loc.s, loc.r)

\* C12, its case: a run that descended twice, with equal elements in it, so
\* that a segment was flipped inside the loop, and elements left behind it.
NextSortedRunCase ==
    /\ pc = "next_sorted_run"
    /\ loc.r >= 4
    /\ loc.r < loc.n
    /\ Key(input[loc.s + 1]) > Key(input[loc.s + 2])
    /\ Key(input[loc.s + 2]) = Key(input[loc.s + 3])
    /\ Key(input[loc.s + 3]) > Key(input[loc.s + 4])

\* The head of the block now at position i of the grid: its last element.
BlockHead(i) == mem.a[loc.s + (i + 1) * loc.block_len]

\* The position in the grid that the block now at position i started from.
BlockOrigin(i) == (Id(BlockHead(i)) - loc.s) \div loc.block_len

\* What C13 says of the sequence after sorted_from_runs.
BlocksInOrder ==
    /\ \A i \in 0..(loc.count - 1) : BlockOrigin(i) \in 0..(loc.count - 1)
    /\ \A i \in 0..(loc.count - 2) : ~less(BlockHead(i + 1), BlockHead(i))
    /\ \A i \in 0..(loc.count - 1) : \A j \in (i + 1)..(loc.count - 1) :
          /\ BlockOrigin(i) >= loc.c1 /\ BlockOrigin(j) < loc.c1
                => less(BlockHead(i), BlockHead(j))
          /\ (BlockOrigin(i) < loc.c1) = (BlockOrigin(j) < loc.c1)
                => BlockOrigin(i) < BlockOrigin(j)
    /\ \A i \in 0..(loc.count - 1) :
          /\ mem.a[loc.keys + i + 1] = input[loc.keys + BlockOrigin(i) + 1]
          /\ \A k \in 1..loc.block_len :
                mem.a[loc.s + i * loc.block_len + k]
                    = input[loc.s + BlockOrigin(i) * loc.block_len + k]
    /\ IsPerm(mem.a, Range(input))
    /\ \A p \in (loc.s + loc.count * loc.block_len + 1)..Len(input) : mem.a[p] = input[p]

InsertSort ==
    pc = "insert_sort" =>
        /\ SortedRun(mem.a, loc.s, loc.n)
        /\ SameElements(mem.a, loc.s, input, loc.s, loc.n)
        /\ StableRun(mem.a, loc.s, loc.n)
        /\ SameOutside(mem.a, input, loc.s, loc.s, loc.n)
        /\ loc.n <= loc.i => mem.a = input

\* C14, its case: an element went down by an odd number of places, three or
\* more (shifted two at a time, then by the odd step), and another by an even
\* number.
InsertSortCase ==
    /\ pc = "insert_sort"
    /\ \E p, q \in (loc.s + loc.i + 1)..(loc.s + loc.n) :
          \E p1 \in (loc.s + 1)..(p - 3) : \E q1 \in (loc.s + 1)..(q - 2) :
              /\ mem.a[p1] = input[p] /\ (p - p1) % 2 = 1
              /\ mem.a[q1] = input[q] /\ (q - q1) % 2 = 0

\* i is the smallest index in 0..n whose element fails F: F holds below i, and
\* fails at i unless i = n.
FirstNot(i, n, F(_)) ==
    /\ i \in 0..n
    /\ \A x \in 0..(i - 1) : F(x)
    /\ i < n => ~F(i)

\* C15: lower_bound(n, f), f true on a prefix of 0..n and false on the rest,
\* returns the smallest i with f(i) false (n if there is none) and asks f at
\* indices of 0..n - 1 only; search_left returns the first index whose element
\* is not less than *val, search_right the first whose element *val is less
\* than.
Search ==
    pc = "search" =>
        /\ FirstNot(loc.r, loc.n, LAMBDA x : less(input[x + 1], input[loc.n + 1]))
        /\ \A k \in 1..Len(loc.asked) : loc.asked[k] \in 0..(loc.n - 1)
        /\ FirstNot(loc.left, loc.n, LAMBDA x : less(input[x + 1], input[loc.n + 1]))
        /\ FirstNot(loc.right, loc.n, LAMBDA x : ~less(input[loc.n + 1], input[x + 1]))
        /\ ~mem.oob

\* C15, its case: a search among elements less than, equal to and greater than
\* *val, the two searches apart.
SearchCase ==
    /\ pc = "search"
    /\ loc.n >= 8
    /\ 0 < loc.left
    /\ loc.left < loc.right
    /\ loc.right < loc.n
    /\ Len(loc.asked) >= 4

\* The powers of two a block length is looked for among.
BlockLengths == {2 ^ j : j \in 0..14}

\* 2^ceil(log2(n + 1) / 2): the least power of two k with k * k >= n + 1.
ClaimedBlockLength(n) ==
    CHOOSE k \in BlockLengths :
        k * k >= n + 1 /\ \A h \in BlockLengths : h < k => h * h < n + 1

\* 2^ceil(floor(log2 n) / 2): the least power of two k with 2 * k * k > n.
LeastBlockLength(n) ==
    CHOOSE k \in BlockLengths :
        2 * k * k > n /\ \A h \in BlockLengths : h < k => 2 * h * h <= n

\* C16 as claimed: array_block_length(n) is k or 2k for k = 2^ceil(log2(n + 1) / 2),
\* and 2k exactly when k < n / k.
BlockLengthAsClaimed ==
    pc = "array_block_length" =>
        /\ loc.r \in {ClaimedBlockLength(loc.n), 2 * ClaimedBlockLength(loc.n)}
        /\ loc.r = 2 * ClaimedBlockLength(loc.n)
              <=> ClaimedBlockLength(loc.n) < loc.n \div ClaimedBlockLength(loc.n)

\* C16: array_block_length(n) is k or 2k for k = 2^ceil(floor(log2 n) / 2), the
\* least power of two with 2 * k * k > n, and 2k exactly when k < n / k.
BlockLength ==
    pc = "array_block_length" =>
        /\ loc.r \in {LeastBlockLength(loc.n), 2 * LeastBlockLength(loc.n)}
        /\ loc.r = 2 * LeastBlockLength(loc.n)
              <=> LeastBlockLength(loc.n) < loc.n \div LeastBlockLength(loc.n)

\* C16, its case: an n that is no power of two and gets the larger length 2k.
BlockLengthCase ==
    /\ pc = "array_block_length"
    /\ loc.n > 64
    /\ 2 ^ ilog2(loc.n) # loc.n
    /\ loc.r = 2 * LeastBlockLength(loc.n)

\* The buffer region of a holds, from position p of the buffer on, what it held
\* on entry.
BufferKept(a, b, p) ==
    \A i \in (b.start + p + 1)..(b.start + b.len) : a[i] = input[i]

\* C17: a merge that returned true left s[0..n1 + n2) the stable merge of the two
\* runs and the buffer with the elements it held: those from buf.unsorted on
\* where they were, the first buf.unsorted among themselves, so that
\* Buffer::sort after it leaves the buffer ascending.
MergeTrue ==
    pc = "merge" /\ ret =>
        /\ SortedRun(mem.a, 0, loc.n1 + loc.n2)
        /\ StableRun(mem.a, 0, loc.n1 + loc.n2)
        /\ SameElements(mem.a, 0, input, 0, loc.n1 + loc.n2)
        /\ SameElements(mem.a, buf.start, input, buf.start, buf.len)
        /\ BufferKept(mem.a, buf, buf.unsorted)
        /\ SameElements(mem.a, buf.start, input, buf.start, buf.unsorted)
        /\ \A i \in (buf.start + 1)..(buf.start + buf.len - 1) :
              less(Call("Buffer_sort", <<mem, buf>>).m.a[i],
                   Call("Buffer_sort", <<mem, buf>>).m.a[i + 1])

\* C17, its case: a merge through the buffer that returned true, the buffer
\* left out of order.
MergeTrueCase ==
    /\ pc = "merge"
    /\ ret
    /\ buf.unsorted >= 2
    /\ loc.buf.unsorted = 0
    /\ ~SortedRun(mem.a, buf.start, buf.len)
    /\ mem.a # input

\* From position l0 of a[0..n) on, every run of length run is non-descending.
RunsSorted(a, l0, run, n) ==
    \A i \in (l0 + 1)..(n - 1) : (i - l0) % run # 0 => ~less(a[i + 1], a[i])

\* C18: in the buffered phase of block_merge_sort the merge after block_merge,
\* whose result is dropped, returned true every time, and a pass leaves runs of
\* twice the length sorted, from where the pass started.
DroppedMergeTrue ==
    pc = "buffered" /\ loc.run > MIN_RUN =>
        /\ loc.dropped
        /\ RunsSorted(mem.a, IF loc.run \div 2 < loc.head_run THEN loc.tail_start ELSE 0,
                      loc.run, loc.bn)

\* C18, its case: a pass is over in which block_merge was followed by the merge
\* with a remainder outside the block grid.
DroppedMergeCase ==
    /\ pc = "buffered"
    /\ loc.run > MIN_RUN
    /\ loc.rests > 0
    /\ loc.bn % loc.bl > 0

\* C19: begin_merge is never handed cnt = 0: no call of it from merge or from
\* local_merge panics.
NoOrdViolated == ~mem.panic

\* C19, its case: a pass of block merging with merge buffer is over, with
\* block_merge and the merge after it, and begin_merge has moved elements out
\* of the buffer.
NoOrdViolatedCase ==
    /\ pc = "buffered"
    /\ loc.rests > 0
    /\ buf.unsorted > 0
    /\ ~mem.panic
====
